---- MODULE Spec2Model ----
(***************************************************************************)
(* The rule-based summarizer of app.py (class RAGSummarizer): the session  *)
(* state (documents, processed_text) and its three operations              *)
(* process_documents, generate_summary and ask_question; the page of       *)
(* main() that calls them; and the classes of src/core (DocumentProcessor, *)
(* VectorStoreManager, RAGSummarizer).                                     *)
(*                                                                         *)
(* A Python str is a sequence of characters; a character is a one-letter   *)
(* string, except the three named below.                                   *)
(***************************************************************************)
EXTENDS Integers, Sequences, FiniteSets, TLC

VARIABLES
    documents,       \* self.documents: the corpus, a list of sentences
    processed_text,  \* self.processed_text
    loaded,          \* history: all_text of the last process_documents that returned True
    call,            \* the last call: its operation and argument
    locals,          \* the values its local variables held when it returned
    ret,             \* the value it returned
    replaced,        \* history: the last call replaced a corpus that held a
                     \* sentence its own texts do not hold
    exception,       \* the exception raised inside the last call, and whether
                     \* the call caught it or let it reach its caller
    writer,          \* the process_documents call that is between its two
                     \* assignments, if any
    reader,          \* the generate_summary or ask_question call that is between
                     \* its reads, if any, and what the last such call read
    documents_processed,  \* st.session_state.documents_processed of main()
    vector_store,    \* src/core RAGSummarizer: self.vector_store
    retriever,       \* self.retriever
    qa_chain,        \* self.qa_chain
    vector_store_manager  \* self.vector_store_manager: its vector_store and retriever

\* the fields of the src/core RAGSummarizer
rag_system == <<vector_store, retriever, qa_chain, vector_store_manager>>

vars ==
    <<documents, processed_text, loaded, call, locals, ret, replaced, exception,
      writer, reader, documents_processed, rag_system>>

-----------------------------------------------------------------------------
(* Characters and the str methods the code uses.                           *)

NL == "\n"

BULLET == "<bullet>"

Whitespace == {" ", NL, "\t"}

UpperLetters ==
    <<"A", "B", "C", "D", "E", "F", "G", "H", "I", "J", "K", "L", "M",
      "N", "O", "P", "Q", "R", "S", "T", "U", "V", "W", "X", "Y", "Z">>

LowerLetters ==
    <<"a", "b", "c", "d", "e", "f", "g", "h", "i", "j", "k", "l", "m",
      "n", "o", "p", "q", "r", "s", "t", "u", "v", "w", "x", "y", "z">>

DigitChars == <<"0", "1", "2", "3", "4", "5", "6", "7", "8", "9">>

Range(s) == {s[i] : i \in 1..Len(s)}

Min(a, b) == IF a <= b THEN a ELSE b

\* the list with the elements f[1], ..., f[n]: a function on 1..n as a tuple
tuple(f) == SubSeq(f, 1, Len(f))

\* list[:n]
Take(s, n) == SubSeq(s, 1, Min(n, Len(s)))

\* list[-n:]
LastN(s, n) == SubSeq(s, Len(s) - Min(n, Len(s)) + 1, Len(s))

\* str.lower(), one character
lower_char(c) ==
    LET at == {i \in 1..26 : UpperLetters[i] = c}
    IN  IF at = {} THEN c ELSE LowerLetters[CHOOSE i \in at : TRUE]

\* str.lower()
lower(s) == tuple([i \in 1..Len(s) |-> lower_char(s[i])])

\* str.isalpha(): non-empty and letters only
isalpha(s) ==
    /\ s # <<>>
    /\ \A i \in 1..Len(s) :
           s[i] \in {UpperLetters[k] : k \in 1..26} \cup {LowerLetters[k] : k \in 1..26}

\* a whole-word match in place of `in`: k occurs in s between whitespace
contains_word(s, k) ==
    \E i \in 0..(Len(s) - Len(k)) :
        /\ \A j \in 1..Len(k) : s[i + j] = k[j]
        /\ i = 0 \/ s[i] \in Whitespace
        /\ i + Len(k) = Len(s) \/ s[i + Len(k) + 1] \in Whitespace

\* the str operator `in`: k occurs in s as a contiguous substring
contains(s, k) ==
    \E i \in 0..(Len(s) - Len(k)) : \A j \in 1..Len(k) : s[i + j] = k[j]

\* str.endswith
endswith(s, suffix) ==
    /\ Len(suffix) <= Len(s)
    /\ SubSeq(s, Len(s) - Len(suffix) + 1, Len(s)) = suffix

\* the positions 1..Len(s), in order
positions(s) == tuple([i \in 1..Len(s) |-> i])

\* str.split(): the maximal runs of non-whitespace characters
split(s) ==
    LET starts == SelectSeq(positions(s), LAMBDA i :
                      s[i] \notin Whitespace /\ (i = 1 \/ s[i - 1] \in Whitespace))
        ends == SelectSeq(positions(s), LAMBDA i :
                      s[i] \notin Whitespace /\ (i = Len(s) \/ s[i + 1] \in Whitespace))
    IN  tuple([k \in 1..Len(starts) |-> SubSeq(s, starts[k], ends[k])])

RECURSIVE join(_, _)
\* sep.join(parts)
join(sep, parts) ==
    IF parts = <<>> THEN <<>>
    ELSE IF Len(parts) = 1 THEN parts[1]
    ELSE LET half == Len(parts) \div 2
         IN  join(sep, SubSeq(parts, 1, half)) \o sep
             \o join(sep, SubSeq(parts, half + 1, Len(parts)))

\* str.strip()
strip(s) ==
    LET keep == {i \in 1..Len(s) : s[i] \notin Whitespace}
    IN  IF keep = {} THEN <<>>
        ELSE SubSeq(s, CHOOSE i \in keep : \A j \in keep : i <= j,
                       CHOOSE i \in keep : \A j \in keep : j <= i)

\* ' '.join(s.split()): whitespace runs collapsed, ends trimmed
normalize(s) == join(<<" ">>, split(s))

RECURSIVE decimal(_)
\* f"{n}" of a non-negative int
decimal(n) ==
    IF n < 10 THEN <<DigitChars[n + 1]>>
    ELSE decimal(n \div 10) \o <<DigitChars[(n % 10) + 1]>>

-----------------------------------------------------------------------------
(* nltk: sent_tokenize, word_tokenize, the English stop words.  The        *)
(* tokenizers are modelled on text without abbreviations: a sentence ends  *)
(* at '.', '?' or '!' followed by whitespace or by the end of the text;    *)
(* word_tokenize splits each sentence on whitespace and splits ',', '?',   *)
(* '!' and the sentence-final '.' off as tokens of their own.              *)

SentenceEnd == {".", "?", "!"}

sent_tokenize(text) ==
    LET breaks == SelectSeq(positions(text), LAMBDA i :
                      \/ i = Len(text)
                      \/ text[i] \in SentenceEnd /\ text[i + 1] \in Whitespace)
        raw == [k \in 1..Len(breaks) |->
                   strip(SubSeq(text, IF k = 1 THEN 1 ELSE breaks[k - 1] + 1, breaks[k]))]
    IN  SelectSeq(raw, LAMBDA sentence : sentence # <<>>)

RECURSIVE chunk_from(_, _, _, _, _)
\* one whitespace-free chunk of a sentence; final: it is the sentence's last
chunk_from(w, i, cur, acc, final) ==
    IF i > Len(w)
    THEN IF cur = <<>> THEN acc ELSE Append(acc, cur)
    ELSE IF w[i] \in {",", "?", "!"} \/ (w[i] = "." /\ final /\ i = Len(w))
         THEN chunk_from(w, i + 1, <<>>,
                         Append(IF cur = <<>> THEN acc ELSE Append(acc, cur), <<w[i]>>),
                         final)
         ELSE chunk_from(w, i + 1, Append(cur, w[i]), acc, final)

RECURSIVE chunks_from(_, _, _)
chunks_from(chunks, i, acc) ==
    IF i > Len(chunks) THEN acc
    ELSE chunks_from(chunks, i + 1,
                     acc \o chunk_from(chunks[i], 1, <<>>, <<>>, i = Len(chunks)))

RECURSIVE flatten(_)
\* the concatenation of a list of lists
flatten(lists) ==
    IF lists = <<>> THEN <<>>
    ELSE IF Len(lists) = 1 THEN lists[1]
    ELSE LET half == Len(lists) \div 2
         IN  flatten(SubSeq(lists, 1, half)) \o flatten(SubSeq(lists, half + 1, Len(lists)))

word_tokenize(text) ==
    LET sents == sent_tokenize(text)
    IN  flatten([k \in 1..Len(sents) |-> chunks_from(split(sents[k]), 1, <<>>)])

-----------------------------------------------------------------------------
(* The string literals of app.py, the uploaded texts and the questions.    *)

NoDocumentsMessage ==
    <<"N", "o", " ", "d", "o", "c", "u", "m", "e", "n", "t", "s", " ", "p", "r", "o", "c",
      "e", "s", "s", "e", "d", " ", "y", "e", "t", ".">>

NoMethodologyMessage ==
    <<"N", "o", " ", "c", "l", "e", "a", "r", " ", "m", "e", "t", "h", "o", "d", "o", "l",
      "o", "g", "y", " ", "s", "e", "c", "t", "i", "o", "n", "s", " ", "f", "o", "u", "n",
      "d", " ", "i", "n", " ", "t", "h", "e", " ", "d", "o", "c", "u", "m", "e", "n", "t",
      "s", ".">>

NoFindingsMessage ==
    <<"N", "o", " ", "c", "l", "e", "a", "r", " ", "f", "i", "n", "d", "i", "n", "g", "s",
      " ", "s", "e", "c", "t", "i", "o", "n", "s", " ", "f", "o", "u", "n", "d", " ", "i",
      "n", " ", "t", "h", "e", " ", "d", "o", "c", "u", "m", "e", "n", "t", "s", ".">>

SpecificQuestionMessage ==
    <<"P", "l", "e", "a", "s", "e", " ", "a", "s", "k", " ", "a", " ", "m", "o", "r", "e",
      " ", "s", "p", "e", "c", "i", "f", "i", "c", " ", "q", "u", "e", "s", "t", "i", "o",
      "n", " ", "w", "i", "t", "h", " ", "k", "e", "y", "w", "o", "r", "d", "s", ".">>

NoRelevantMessage ==
    <<"N", "o", " ", "r", "e", "l", "e", "v", "a", "n", "t", " ", "i", "n", "f", "o", "r",
      "m", "a", "t", "i", "o", "n", " ", "f", "o", "u", "n", "d", " ", "f", "o", "r", " ",
      "y", "o", "u", "r", " ", "q", "u", "e", "s", "t", "i", "o", "n", ".">>

KeyPointsHeader ==
    <<"*", "*", "K", "E", "Y", " ", "P", "O", "I", "N", "T", "S", ":", "*", "*", NL, NL>>

MethodologyHeader ==
    <<"*", "*", "M", "E", "T", "H", "O", "D", "O", "L", "O", "G", "Y", ":", "*", "*", NL, NL>>

FindingsHeader ==
    <<"*", "*", "F", "I", "N", "D", "I", "N", "G", "S", " ", "&", " ", "R", "E", "S", "U",
      "L", "T", "S", ":", "*", "*", NL, NL>>

ComprehensiveHeader ==
    <<"*", "*", "C", "O", "M", "P", "R", "E", "H", "E", "N", "S", "I", "V", "E", " ", "S",
      "U", "M", "M", "A", "R", "Y", "*", "*", NL, NL>>

StatisticsPrefix ==
    <<"*", "D", "o", "c", "u", "m", "e", "n", "t", " ", "S", "t", "a", "t", "i", "s", "t",
      "i", "c", "s", ":", " ">>

StatisticsMiddle ==
    <<" ", "s", "e", "n", "t", "e", "n", "c", "e", "s", ",", " ">>

StatisticsSuffix ==
    <<" ", "w", "o", "r", "d", "s", "*", NL, NL>>

OverviewHeader ==
    <<"*", "*", "O", "v", "e", "r", "v", "i", "e", "w", ":", "*", "*", NL>>

AnswerPrefix ==
    <<"*", "*", "A", "n", "s", "w", "e", "r", " ", "t", "o", ":", " ">>

AnswerSuffix ==
    <<"*", "*", NL, NL>>

AnswerIntro ==
    <<"B", "a", "s", "e", "d", " ", "o", "n", " ", "t", "h", "e", " ", "d", "o", "c", "u",
      "m", "e", "n", "t", " ", "c", "o", "n", "t", "e", "n", "t", ":", NL, NL>>

PdfSuffix ==
    <<".", "p", "d", "f">>

PetsText ==
    <<"T", "h", "e", " ", "c", "a", "t", " ", "s", "a", "t", " ", "o", "n", " ", "t", "h",
      "e", " ", "m", "a", "t", ".", " ", "D", "o", "g", "s", " ", "a", "r", "e", " ", "l",
      "o", "y", "a", "l", " ", "a", "n", "i", "m", "a", "l", "s", ".", " ", "T", "h", "e",
      " ", "c", "a", "t", " ", "a", "n", "d", " ", "t", "h", "e", " ", "d", "o", "g", " ",
      "p", "l", "a", "y", "e", "d", ".">>

SamplesText ==
    <<"S", "a", "m", "p", "l", "e", " ", "d", "a", "t", "a", " ", "o", "n", "e", ".", " ",
      "S", "a", "m", "p", "l", "e", " ", "d", "a", "t", "a", " ", "t", "w", "o", ".", " ",
      "S", "a", "m", "p", "l", "e", " ", "d", "a", "t", "a", " ", "t", "h", "r", "e", "e",
      ".", " ", "S", "a", "m", "p", "l", "e", " ", "d", "a", "t", "a", " ", "f", "o", "u",
      "r", ".", " ", "S", "a", "m", "p", "l", "e", " ", "d", "a", "t", "a", " ", "f", "i",
      "v", "e", ".", " ", "S", "a", "m", "p", "l", "e", " ", "d", "a", "t", "a", " ", "s",
      "i", "x", ".", " ", "S", "a", "m", "p", "l", "e", " ", "d", "a", "t", "a", " ", "s",
      "e", "v", "e", "n", ".", " ", "S", "a", "m", "p", "l", "e", " ", "s", "t", "u", "d",
      "y", " ", "d", "a", "t", "a", " ", "e", "i", "g", "h", "t", ".">>

ReportText ==
    <<"R", "e", "s", "u", "l", "t", "s", " ", "s", "h", "o", "w", "e", "d", " ", "s", "t",
      "r", "o", "n", "g", " ", " ", "e", "v", "i", "d", "e", "n", "c", "e", ".", NL, "T",
      "h", "e", " ", "M", "e", "t", "h", "o", "d", " ", "w", "a", "s", " ", "s", "i", "m",
      "p", "l", "e", ".", " ", "W", "e", " ", "f", "o", "u", "n", "d", " ", "9", "2", " ",
      "s", "a", "m", "p", "l", "e", "s", "!">>

BlankText ==
    <<" ", " ", NL>>

PaperPage1 ==
    <<"O", "n", "e", " ", "a", "p", "p", "r", "o", "a", "c", "h">>

PaperPage2 ==
    <<"f", "o", "u", "n", "d", " ", "d", "a", "t", "a", " ", "i", "n", " ", "d", "a", "t",
      "a", ".", " ", "D", "o", "n", "e", ".">>

QuestionCapital ==
    <<"W", "h", "a", "t", " ", "i", "s", " ", "t", "h", "e", " ", "c", "a", "p", "i", "t",
      "a", "l", " ", "o", "f", " ", "F", "r", "a", "n", "c", "e", "?">>

QuestionStopOnly ==
    <<"W", "h", "a", "t", " ", "i", "s", " ", "t", "h", "e">>

QuestionData ==
    <<"W", "h", "i", "c", "h", " ", "d", "a", "t", "a", " ", "s", "a", "m", "p", "l", "e",
      "?">>

QuestionCatMatDog ==
    <<"c", "a", "t", " ", "m", "a", "t", " ", "d", "o", "g">>

method_keywords ==
    << <<"m", "e", "t", "h", "o", "d">>,
       <<"a", "p", "p", "r", "o", "a", "c", "h">>,
       <<"t", "e", "c", "h", "n", "i", "q", "u", "e">>,
       <<"p", "r", "o", "c", "e", "d", "u", "r", "e">>,
       <<"a", "n", "a", "l", "y", "s", "i", "s">>,
       <<"e", "x", "p", "e", "r", "i", "m", "e", "n", "t">>,
       <<"s", "t", "u", "d", "y">>,
       <<"r", "e", "s", "e", "a", "r", "c", "h">>,
       <<"d", "a", "t", "a">>,
       <<"s", "a", "m", "p", "l", "e">> >>

finding_keywords ==
    << <<"r", "e", "s", "u", "l", "t">>,
       <<"f", "i", "n", "d", "i", "n", "g">>,
       <<"c", "o", "n", "c", "l", "u", "s", "i", "o", "n">>,
       <<"o", "u", "t", "c", "o", "m", "e">>,
       <<"e", "v", "i", "d", "e", "n", "c", "e">>,
       <<"s", "h", "o", "w", "e", "d">>,
       <<"d", "e", "m", "o", "n", "s", "t", "r", "a", "t", "e", "d">>,
       <<"f", "o", "u", "n", "d">>,
       <<"d", "i", "s", "c", "o", "v", "e", "r", "e", "d">>,
       <<"r", "e", "v", "e", "a", "l", "e", "d">> >>

stop_words ==
    { <<"a">>, <<"a", "n">>, <<"t", "h", "e">>, <<"a", "n", "d">>,
      <<"o", "r">>, <<"o", "f">>, <<"o", "n">>, <<"i", "n">>,
      <<"i", "s">>, <<"a", "r", "e">>, <<"w", "a", "s">>, <<"w", "e", "r", "e">>,
      <<"w", "e">>, <<"w", "h", "a", "t">>, <<"w", "h", "i", "c", "h">>, <<"w", "i", "t", "h">>,
      <<"t", "o">>, <<"i", "t">>, <<"t", "h", "i", "s">>, <<"t", "h", "a", "t">> }

-----------------------------------------------------------------------------
(* collections.Counter, list.sort and the limits of app.py.                *)

MinWordLength == 3

TopWords == 10

KeyPointMinScore == 2

KeyPointLimit == 5

MethodologyLimit == 7

FindingsLimit == 7

OverviewEdge == 2

OverviewTailFrom == 4

\* the overview cut after both edges: 4 sentences
OverviewLimitBothEdges == OverviewEdge + OverviewEdge

OverviewLimit == 3

AnswerLimit == 5

\* the stable descending order of Python's sorted(..., reverse=True) on the
\* k-th component: x goes after every element whose key is >= its own
insert_desc(sorted, x, k) ==
    LET p == Cardinality({j \in 1..Len(sorted) : sorted[j][k] >= x[k]})
    IN  SubSeq(sorted, 1, p) \o <<x>> \o SubSeq(sorted, p + 1, Len(sorted))

RECURSIVE stable_desc_from(_, _, _, _)
stable_desc_from(list, i, acc, k) ==
    IF i > Len(list) THEN acc
    ELSE stable_desc_from(list, i + 1, insert_desc(acc, list[i], k), k)

\* list[::-1]
reversed(s) == tuple([i \in 1..Len(s) |-> s[Len(s) + 1 - i]])

\* an ascending sort followed by list.reverse(): equal scores end up reversed
sort_reverse_unstable(pairs) == stable_desc_from(reversed(pairs), 1, <<>>, 1)

\* list.sort(reverse=True, key=lambda x: x[0]) on (score, sentence) pairs
sort_reverse(pairs) == stable_desc_from(pairs, 1, <<>>, 1)

\* Counter(words).items(): (word, count) in order of first occurrence
Counter(words) ==
    LET firsts == SelectSeq(positions(words), LAMBDA i :
                      \A j \in 1..(i - 1) : words[j] # words[i])
        keys == tuple([k \in 1..Len(firsts) |-> words[firsts[k]]])
    IN  tuple([i \in 1..Len(keys) |->
                 <<keys[i], Cardinality({j \in 1..Len(words) : words[j] = keys[i]})>>])

\* most_common with the words of one count in the reverse of their first
\* occurrences
most_common_last_first(items, n) == Take(stable_desc_from(reversed(items), 1, <<>>, 2), n)

\* Counter.most_common(n): heapq.nlargest(n, items, key=count), which is
\* sorted(items, key=count, reverse=True)[:n]
most_common(items, n) == Take(stable_desc_from(items, 1, <<>>, 2), n)

\* the share of the words found in the sentence, in tenths, in place of their
\* number
score_as_share(words, sentence) ==
    LET lowered == lower(sentence)
    IN  IF words = <<>> THEN 0
        ELSE (10 * Cardinality({i \in 1..Len(words) : contains(lowered, words[i])}))
                 \div Len(words)

\* sum(1 for word in words if word in sentence.lower())
score(words, sentence) ==
    LET lowered == lower(sentence)
    IN  Cardinality({i \in 1..Len(words) : contains(lowered, words[i])})

\* f"{i}. {clean_sentence}\n\n" for i, sentence in enumerate(list, 1)
numbered(list) ==
    flatten([i \in 1..Len(list) |->
                decimal(i) \o <<".", " ">> \o normalize(strip(list[i])) \o <<NL, NL>>])

\* the bullet lines written with the counter of enumerate(list, 1)
bulleted_as_numbers(list) ==
    flatten([i \in 1..Len(list) |->
                decimal(i) \o <<".", " ">> \o normalize(strip(list[i])) \o <<NL, NL>>])

\* f"• {clean_sentence}\n\n" for sentence in list
bulleted(list) ==
    flatten([i \in 1..Len(list) |->
                <<BULLET, " ">> \o normalize(strip(list[i])) \o <<NL, NL>>])

-----------------------------------------------------------------------------
(* RAGSummarizer: the strategies.  Each returns its result together with   *)
(* the values its local variables held, which the actions record.          *)

\* Python's None
None == <<"None">>

\* no process_documents call is under way
Idle == [busy |-> FALSE, uploaded_files |-> <<>>]

\* no generate_summary or ask_question call is under way, and none has read
NotReading == [busy |-> FALSE, op |-> "", arg |-> <<>>, text |-> <<>>, docs |-> <<>>]

\* no exception was raised
NoException == [message |-> <<>>, caught |-> TRUE]

NoLocals ==
    [keywords |-> <<>>, scores |-> <<>>, selected |-> <<>>, listed |-> <<>>,
     key_points |-> <<>>]

lower_all(words) == tuple([i \in 1..Len(words) |-> lower(words[i])])

first(pairs) == tuple([i \in 1..Len(pairs) |-> pairs[i][1]])

second(pairs) == tuple([i \in 1..Len(pairs) |-> pairs[i][2]])

\* the loop `for sentence in self.documents`: the score of every sentence
sentence_scores(docs, words) ==
    tuple([i \in 1..Len(docs) |-> score(words, docs[i])])

\* ... and its (score, sentence) appends, for the scores >= least
scored_sentences(docs, scores, least) ==
    SelectSeq(tuple([i \in 1..Len(docs) |-> <<scores[i], docs[i]>>]),
              LAMBDA p : p[1] >= least)

\* frequent_words without the test len(w) > 3
frequent_words_any_length(text) ==
    SelectSeq(word_tokenize(lower(text)),
              LAMBDA w : isalpha(w) /\ w \notin stop_words)

\* words of the text that count for the frequency table
frequent_words(text) ==
    SelectSeq(word_tokenize(lower(text)),
              LAMBDA w : isalpha(w) /\ w \notin stop_words /\ Len(w) > MinWordLength)

_extract_key_points(docs, text) ==
    LET words == first(most_common(Counter(frequent_words(text)), TopWords))
        scores == sentence_scores(docs, lower_all(words))
        key_sentences == sort_reverse(scored_sentences(docs, scores, KeyPointMinScore))
        listed == second(Take(key_sentences, KeyPointLimit))
    IN  [keywords |-> words,
         scores |-> scores,
         selected |-> key_sentences,
         listed |-> listed,
         key_points |-> <<>>,
         result |-> KeyPointsHeader \o numbered(listed)]

\* keyword_section with the matching sentences sorted by score first
keyword_section_ranked(docs, keywords, limit, header, nothing) ==
    LET scores == sentence_scores(docs, keywords)
        sentences == second(sort_reverse(scored_sentences(docs, scores, 1)))
        listed == Take(sentences, limit)
    IN  [keywords |-> keywords,
         scores |-> scores,
         selected |-> sentences,
         listed |-> listed,
         key_points |-> <<>>,
         result |-> IF sentences = <<>> THEN nothing ELSE header \o bulleted(listed)]

\* keyword_section without the test `if not method_sentences`
keyword_section_no_fallback(docs, keywords, limit, header, nothing) ==
    LET scores == sentence_scores(docs, keywords)
        sentences == second(scored_sentences(docs, scores, 1))
        listed == Take(sentences, limit)
    IN  [keywords |-> keywords,
         scores |-> scores,
         selected |-> sentences,
         listed |-> listed,
         key_points |-> <<>>,
         result |-> header \o bulleted(listed)]

\* shared shape of _extract_methodology and _extract_findings
keyword_section(docs, keywords, limit, header, nothing) ==
    LET scores == sentence_scores(docs, keywords)
        sentences == second(scored_sentences(docs, scores, 1))
        listed == Take(sentences, limit)
    IN  [keywords |-> keywords,
         scores |-> scores,
         selected |-> sentences,
         listed |-> listed,
         key_points |-> <<>>,
         result |-> IF sentences = <<>> THEN nothing ELSE header \o bulleted(listed)]

_extract_methodology(docs) ==
    keyword_section(docs, method_keywords, MethodologyLimit,
                    MethodologyHeader, NoMethodologyMessage)

_extract_findings(docs) ==
    keyword_section(docs, finding_keywords, FindingsLimit,
                    FindingsHeader, NoFindingsMessage)

\* _extract_comprehensive with the last sentences added from 3 sentences on
_extract_comprehensive_short_tail(docs, text) ==
    LET total_sentences == Len(docs)
        total_words == Len(word_tokenize(text))
        important_sentences ==
            IF total_sentences > 0
            THEN Take(docs, OverviewEdge)
                 \o (IF total_sentences > OverviewEdge
                     THEN LastN(docs, OverviewEdge) ELSE <<>>)
            ELSE <<>>
        key_points == _extract_key_points(docs, text)
        listed == Take(important_sentences, OverviewLimit)
    IN  [keywords |-> key_points.keywords,
         scores |-> key_points.scores,
         selected |-> important_sentences,
         listed |-> listed,
         key_points |-> key_points.result,
         result |-> ComprehensiveHeader
                    \o StatisticsPrefix \o decimal(total_sentences)
                    \o StatisticsMiddle \o decimal(total_words) \o StatisticsSuffix
                    \o OverviewHeader \o bulleted(listed)
                    \o key_points.result]

_extract_comprehensive(docs, text) ==
    LET total_sentences == Len(docs)
        total_words == Len(word_tokenize(text))
        important_sentences ==
            IF total_sentences > 0
            THEN Take(docs, OverviewEdge)
                 \o (IF total_sentences > OverviewTailFrom
                     THEN LastN(docs, OverviewEdge) ELSE <<>>)
            ELSE <<>>
        key_points == _extract_key_points(docs, text)
        listed == Take(important_sentences, OverviewLimit)
    IN  [keywords |-> key_points.keywords,
         scores |-> key_points.scores,
         selected |-> important_sentences,
         listed |-> listed,
         key_points |-> key_points.result,
         result |-> ComprehensiveHeader
                    \o StatisticsPrefix \o decimal(total_sentences)
                    \o StatisticsMiddle \o decimal(total_words) \o StatisticsSuffix
                    \o OverviewHeader \o bulleted(listed)
                    \o key_points.result]

\* generate_summary with the methodology and findings branches exchanged
generate_summary_misrouted(docs, text, summary_type) ==
    IF docs = <<>> THEN NoLocals @@ [result |-> NoDocumentsMessage]
    ELSE IF summary_type = "key_points" THEN _extract_key_points(docs, text)
    ELSE IF summary_type = "methodology" THEN _extract_findings(docs)
    ELSE IF summary_type = "findings" THEN _extract_methodology(docs)
    ELSE _extract_comprehensive(docs, text)

UnknownSummaryTypeMessage ==
    <<"U", "n", "k", "n", "o", "w", "n", " ", "s", "u", "m", "m", "a", "r", "y", " ", "t",
      "y", "p", "e", ".">>

\* the branches of generate_summary with a message for a summary type that is
\* none of the four
extract_rejecting_unknown(docs, text, summary_type) ==
    IF summary_type = "key_points" THEN _extract_key_points(docs, text)
    ELSE IF summary_type = "methodology" THEN _extract_methodology(docs)
    ELSE IF summary_type = "findings" THEN _extract_findings(docs)
    ELSE IF summary_type = "comprehensive" THEN _extract_comprehensive(docs, text)
    ELSE NoLocals @@ [result |-> UnknownSummaryTypeMessage]

\* the branches of generate_summary: the strategy of a summary type
extract(docs, text, summary_type) ==
    IF summary_type = "key_points" THEN _extract_key_points(docs, text)
    ELSE IF summary_type = "methodology" THEN _extract_methodology(docs)
    ELSE IF summary_type = "findings" THEN _extract_findings(docs)
    ELSE _extract_comprehensive(docs, text)

generate_summary(docs, text, summary_type) ==
    IF docs = <<>> THEN NoLocals @@ [result |-> NoDocumentsMessage]
    ELSE extract(docs, text, summary_type)

\* question_keywords with the test len(w) > 3 of _extract_key_points
question_keywords_long_only(question) ==
    SelectSeq(word_tokenize(lower(question)),
              LAMBDA w : isalpha(w) /\ w \notin stop_words /\ Len(w) > MinWordLength)

\* the keywords of a question
question_keywords(question) ==
    SelectSeq(word_tokenize(lower(question)),
              LAMBDA w : isalpha(w) /\ w \notin stop_words)

\* answer without the test `if not relevant_sentences`
answer_without_fallback(docs, question, question_words) ==
    LET scores == sentence_scores(docs, lower_all(question_words))
        relevant_sentences == sort_reverse(scored_sentences(docs, scores, 1))
        listed == second(Take(relevant_sentences, AnswerLimit))
    IN  [keywords |-> question_words,
         scores |-> scores,
         selected |-> relevant_sentences,
         listed |-> listed,
         key_points |-> <<>>,
         result |-> AnswerPrefix \o question \o AnswerSuffix
                    \o AnswerIntro \o numbered(listed)]

\* answer with the lower-cased question in the header
answer_lowered_header(docs, question, question_words) ==
    LET scores == sentence_scores(docs, lower_all(question_words))
        relevant_sentences == sort_reverse(scored_sentences(docs, scores, 1))
        listed == second(Take(relevant_sentences, AnswerLimit))
    IN  [keywords |-> question_words,
         scores |-> scores,
         selected |-> relevant_sentences,
         listed |-> listed,
         key_points |-> <<>>,
         result |-> IF relevant_sentences = <<>>
                    THEN NoRelevantMessage
                    ELSE AnswerPrefix \o lower(question) \o AnswerSuffix
                         \o AnswerIntro \o numbered(listed)]

\* ask_question from its scoring loop on: question_words is not empty
answer(docs, question, question_words) ==
    LET scores == sentence_scores(docs, lower_all(question_words))
        relevant_sentences == sort_reverse(scored_sentences(docs, scores, 1))
        listed == second(Take(relevant_sentences, AnswerLimit))
    IN  [keywords |-> question_words,
         scores |-> scores,
         selected |-> relevant_sentences,
         listed |-> listed,
         key_points |-> <<>>,
         result |-> IF relevant_sentences = <<>>
                    THEN NoRelevantMessage
                    ELSE AnswerPrefix \o question \o AnswerSuffix
                         \o AnswerIntro \o numbered(listed)]

\* ask_question with the keyword test moved before the corpus test
ask_question_keywords_first(docs, question) ==
    LET question_words == question_keywords(question)
    IN  IF question_words = <<>>
        THEN NoLocals @@ [result |-> SpecificQuestionMessage]
        ELSE IF docs = <<>> THEN NoLocals @@ [result |-> NoDocumentsMessage]
        ELSE answer(docs, question, question_words)

ask_question(docs, question) ==
    LET question_words == question_keywords(question)
    IN  IF docs = <<>> THEN NoLocals @@ [result |-> NoDocumentsMessage]
        ELSE IF question_words = <<>>
        THEN NoLocals @@ [result |-> SpecificQuestionMessage]
        ELSE answer(docs, question, question_words)

-----------------------------------------------------------------------------
(* The session: uploaded files, process_documents and the three actions.   *)

\* most files one process_documents call is given
MaxBatch == 2

\* an uploaded file: a .pdf holds its pages' texts (the list loader.load()
\* returns, of any length), any other file its text; readable = FALSE is a
\* file whose loading or decoding raises
Library ==
    { [name |-> <<"p", "e", "t", "s", ".", "t", "x", "t">>,
       readable |-> TRUE, content |-> PetsText],
      [name |-> <<"s", "a", "m", "p", "l", "e", "s", ".", "t", "x", "t">>,
       readable |-> TRUE, content |-> SamplesText],
      [name |-> <<"r", "e", "p", "o", "r", "t", ".", "t", "x", "t">>,
       readable |-> TRUE, content |-> ReportText],
      [name |-> <<"b", "l", "a", "n", "k", ".", "t", "x", "t">>,
       readable |-> TRUE, content |-> BlankText],
      [name |-> <<"b", "r", "o", "k", "e", "n", ".", "t", "x", "t">>,
       readable |-> FALSE, content |-> PetsText],
      [name |-> <<"p", "a", "p", "e", "r", ".", "p", "d", "f">>,
       readable |-> TRUE, content |-> <<PaperPage1, PaperPage2>>],
      [name |-> <<"e", "m", "p", "t", "y", ".", "p", "d", "f">>,
       readable |-> TRUE, content |-> <<>>] }

\* the lists of at most MaxBatch different files
Batches ==
    UNION {{uploaded_files \in [1..n -> Library] :
                \A i, j \in 1..n : i # j => uploaded_files[i] # uploaded_files[j]} :
           n \in 0..MaxBatch}

SummaryTypes == {"key_points", "methodology", "findings", "comprehensive", "abstract"}

Questions ==
    {QuestionCapital, QuestionStopOnly, QuestionData, QuestionCatMatDog, <<>>,
     <<"c", "a", "t", " ", "d", "o", "g">>,
     <<"c", "a", "t", " ", "d", "o", "g", " ", "d", "o", "g">>}

RECURSIVE all_text_from_first_error(_, _, _)
\* the loop over uploaded_files left at the first file that raises
all_text_from_first_error(uploaded_files, i, all_text) ==
    IF i > Len(uploaded_files) THEN all_text
    ELSE LET uploaded_file == uploaded_files[i]
         IN  IF ~uploaded_file.readable THEN all_text
             ELSE all_text_from_first_error(uploaded_files, i + 1,
                      IF endswith(uploaded_file.name, PdfSuffix)
                      THEN all_text \o uploaded_file.content
                      ELSE Append(all_text, uploaded_file.content))

RECURSIVE all_text_from(_, _, _)
\* the loop over uploaded_files: the texts appended to all_text
all_text_from(uploaded_files, i, all_text) ==
    IF i > Len(uploaded_files) THEN all_text
    ELSE LET uploaded_file == uploaded_files[i]
         IN  all_text_from(uploaded_files, i + 1,
                 IF ~uploaded_file.readable THEN all_text
                 ELSE IF endswith(uploaded_file.name, PdfSuffix)
                      THEN all_text \o uploaded_file.content
                      ELSE Append(all_text, uploaded_file.content))

\* process_documents with the texts combined from the last file to the first
process_documents_last_first(uploaded_files) ==
    LET all_text == all_text_from(uploaded_files, 1, <<>>)
        combined_text == join(<<NL, NL>>, reversed(all_text))
        text == normalize(combined_text)
        raw_sentences == sent_tokenize(text)
        kept == SelectSeq(raw_sentences, LAMBDA sentence : strip(sentence) # <<>>)
    IN  IF all_text = <<>>
        THEN [result |-> FALSE]
        ELSE [result |-> TRUE,
              all_text |-> all_text,
              processed_text |-> text,
              documents |-> tuple([i \in 1..Len(kept) |-> normalize(kept[i])])]

\* process_documents without the two whitespace clean-ups (lines 121 and 126)
process_documents_uncleaned(uploaded_files) ==
    LET all_text == all_text_from(uploaded_files, 1, <<>>)
        combined_text == join(<<NL, NL>>, all_text)
        raw_sentences == sent_tokenize(combined_text)
        kept == SelectSeq(raw_sentences, LAMBDA sentence : strip(sentence) # <<>>)
    IN  IF all_text = <<>>
        THEN [result |-> FALSE]
        ELSE [result |-> TRUE,
              all_text |-> all_text,
              processed_text |-> combined_text,
              documents |-> kept]

process_documents(uploaded_files) ==
    LET all_text == all_text_from(uploaded_files, 1, <<>>)
        combined_text == join(<<NL, NL>>, all_text)
        text == normalize(combined_text)
        raw_sentences == sent_tokenize(text)
        kept == SelectSeq(raw_sentences, LAMBDA sentence : strip(sentence) # <<>>)
    IN  IF all_text = <<>>
        THEN [result |-> FALSE]
        ELSE [result |-> TRUE,
              all_text |-> all_text,
              processed_text |-> text,
              documents |-> tuple([i \in 1..Len(kept) |-> normalize(kept[i])])]

\* process_documents of every batch, computed once
processed ==
    [uploaded_files \in Batches |-> process_documents(uploaded_files)] @@ <<>>

Init ==
    /\ documents = <<>>
    /\ processed_text = <<>>
    /\ loaded = <<>>
    /\ call = [op |-> "__init__", arg |-> <<>>]
    /\ locals = NoLocals
    /\ ret = <<>>
    /\ replaced = FALSE
    /\ exception = NoException
    /\ writer = Idle
    /\ reader = NotReading
    /\ documents_processed = FALSE
    /\ vector_store = None
    /\ retriever = None
    /\ qa_chain = None
    /\ vector_store_manager = [vector_store |-> None, retriever |-> None]

\* ProcessDocuments with the emptiness test of line 115 made after the
\* assignments: a call that returns False has emptied the text and the corpus
ProcessDocumentsAssigningFirst ==
    \E uploaded_files \in Batches :
        \E r \in {processed[uploaded_files]} :
            /\ UNCHANGED <<writer, reader, documents_processed, rag_system>>
            /\ call' = [op |-> "process_documents", arg |-> uploaded_files]
            /\ locals' = NoLocals
            /\ ret' = r.result
            /\ exception' = NoException
            /\ IF r.result
               THEN /\ processed_text' = r.processed_text
                    /\ documents' = r.documents
                    /\ loaded' = r.all_text
                    /\ replaced' = \E i \in 1..Len(documents) :
                                       documents[i] \notin Range(r.documents)
               ELSE /\ processed_text' = <<>>
                    /\ documents' = <<>>
                    /\ UNCHANGED loaded
                    /\ replaced' = FALSE

ProcessDocuments ==
    \E uploaded_files \in Batches :
        \E r \in {processed[uploaded_files]} :
            /\ UNCHANGED <<writer, reader, documents_processed, rag_system>>
            /\ call' = [op |-> "process_documents", arg |-> uploaded_files]
            /\ locals' = NoLocals
            /\ ret' = r.result
            /\ exception' = NoException
            /\ IF r.result
               THEN /\ processed_text' = r.processed_text
                    /\ documents' = r.documents
                    /\ loaded' = r.all_text
                    /\ replaced' = \E i \in 1..Len(documents) :
                                       documents[i] \notin Range(r.documents)
               ELSE /\ UNCHANGED <<processed_text, documents, loaded>>
                    /\ replaced' = FALSE

GenerateSummary ==
    \E summary_type \in SummaryTypes :
        \E r \in {generate_summary(documents, processed_text, summary_type)} :
            /\ UNCHANGED <<writer, reader, documents_processed, rag_system>>
            /\ call' = [op |-> "generate_summary", arg |-> summary_type]
            /\ locals' = [f \in DOMAIN NoLocals |-> r[f]]
            /\ ret' = r.result
            /\ replaced' = FALSE
            /\ exception' = NoException
            /\ UNCHANGED <<documents, processed_text, loaded>>

\* AskQuestion with a corpus that loses the sentences the answer lists
AskQuestionConsuming ==
    \E question \in Questions :
        \E r \in {ask_question(documents, question)} :
            /\ UNCHANGED <<writer, reader, documents_processed, rag_system>>
            /\ call' = [op |-> "ask_question", arg |-> question]
            /\ locals' = [f \in DOMAIN NoLocals |-> r[f]]
            /\ ret' = r.result
            /\ replaced' = FALSE
            /\ exception' = NoException
            /\ documents' = SelectSeq(documents, LAMBDA s : s \notin Range(r.listed))
            /\ UNCHANGED <<processed_text, loaded>>

AskQuestion ==
    \E question \in Questions :
        \E r \in {ask_question(documents, question)} :
            /\ UNCHANGED <<writer, reader, documents_processed, rag_system>>
            /\ call' = [op |-> "ask_question", arg |-> question]
            /\ locals' = [f \in DOMAIN NoLocals |-> r[f]]
            /\ ret' = r.result
            /\ replaced' = FALSE
            /\ exception' = NoException
            /\ UNCHANGED <<documents, processed_text, loaded>>

Next == ProcessDocuments \/ GenerateSummary \/ AskQuestion

Spec == Init /\ [][Next]_vars

-----------------------------------------------------------------------------
(* The same operations in a session whose NLTK data may be missing: the    *)
(* imports of app.py try to download punkt and go on when that fails, and  *)
(* sent_tokenize and word_tokenize then raise LookupError when called.     *)

ErrorSummaryPrefix ==
    <<"E", "r", "r", "o", "r", " ", "g", "e", "n", "e", "r", "a", "t", "i", "n", "g", " ",
      "s", "u", "m", "m", "a", "r", "y", ":", " ">>

ErrorAnswerPrefix ==
    <<"E", "r", "r", "o", "r", " ", "a", "n", "s", "w", "e", "r", "i", "n", "g", " ", "q",
      "u", "e", "s", "t", "i", "o", "n", ":", " ">>

LookupErrorText ==
    <<"R", "e", "s", "o", "u", "r", "c", "e", " ", "p", "u", "n", "k", "t", "_", "t", "a",
      "b", " ", "n", "o", "t", " ", "f", "o", "u", "n", "d", ".">>

\* process_documents: sent_tokenize (line 124) is called outside any try, after
\* self.processed_text was assigned (line 121)
ProcessDocumentsOrRaise ==
    \E uploaded_files \in {batch \in Batches : Len(batch) <= 1}, punkt \in BOOLEAN :
        \E r \in {processed[uploaded_files]} :
            /\ UNCHANGED <<writer, reader, documents_processed, rag_system>>
            /\ call' = [op |-> "process_documents", arg |-> uploaded_files]
            /\ locals' = NoLocals
            /\ IF ~r.result
               THEN /\ ret' = FALSE
                    /\ exception' = NoException
                    /\ replaced' = FALSE
                    /\ UNCHANGED <<processed_text, documents, loaded>>
               ELSE IF ~punkt
               THEN /\ processed_text' = r.processed_text
                    /\ ret' = <<>>
                    /\ exception' = [message |-> LookupErrorText, caught |-> FALSE]
                    /\ replaced' = FALSE
                    /\ UNCHANGED <<documents, loaded>>
               ELSE /\ processed_text' = r.processed_text
                    /\ documents' = r.documents
                    /\ loaded' = r.all_text
                    /\ ret' = TRUE
                    /\ exception' = NoException
                    /\ replaced' = \E i \in 1..Len(documents) :
                                       documents[i] \notin Range(r.documents)

\* generate_summary: word_tokenize (lines 151, 223) is called inside the try of
\* line 135; methodology and findings call no tokenizer
GenerateSummaryOrError ==
    \E summary_type \in SummaryTypes, punkt \in BOOLEAN :
        \E r \in {generate_summary(documents, processed_text, summary_type)} :
            /\ UNCHANGED <<writer, reader, documents_processed, rag_system>>
            /\ call' = [op |-> "generate_summary", arg |-> summary_type]
            /\ replaced' = FALSE
            /\ UNCHANGED <<documents, processed_text, loaded>>
            /\ IF documents # <<>> /\ ~punkt /\ summary_type \notin {"methodology", "findings"}
               THEN /\ locals' = NoLocals
                    /\ ret' = ErrorSummaryPrefix \o LookupErrorText
                    /\ exception' = [message |-> LookupErrorText, caught |-> TRUE]
               ELSE /\ locals' = [f \in DOMAIN NoLocals |-> r[f]]
                    /\ ret' = r.result
                    /\ exception' = NoException

\* ask_question: word_tokenize (line 256) is called inside the try of line 254
AskQuestionOrError ==
    \E question \in Questions, punkt \in BOOLEAN :
        \E r \in {ask_question(documents, question)} :
            /\ UNCHANGED <<writer, reader, documents_processed, rag_system>>
            /\ call' = [op |-> "ask_question", arg |-> question]
            /\ replaced' = FALSE
            /\ UNCHANGED <<documents, processed_text, loaded>>
            /\ IF documents # <<>> /\ ~punkt
               THEN /\ locals' = NoLocals
                    /\ ret' = ErrorAnswerPrefix \o LookupErrorText
                    /\ exception' = [message |-> LookupErrorText, caught |-> TRUE]
               ELSE /\ locals' = [f \in DOMAIN NoLocals |-> r[f]]
                    /\ ret' = r.result
                    /\ exception' = NoException

NextFaults == ProcessDocumentsOrRaise \/ GenerateSummaryOrError \/ AskQuestionOrError

SpecFaults == Init /\ [][NextFaults]_vars

-----------------------------------------------------------------------------
(* The same operations called from two threads that share the object: one  *)
(* thread calls process_documents, the other generate_summary and          *)
(* ask_question.  The class holds no lock, so the steps of a call are its  *)
(* reads and writes of self.processed_text and self.documents.  A call is  *)
(* cut in two: process_documents after the assignment of line 121,         *)
(* generate_summary after the test of line 132 and the read of line 151 or *)
(* 223, ask_question after the tests of lines 251 and 259.                 *)

\* the batches of exactly one file
ThreadBatches == {uploaded_files \in Batches : Len(uploaded_files) = 1}

\* the kinds whose strategy reads self.processed_text
ReadsText(summary_type) == summary_type \notin {"methodology", "findings"}

\* process_documents up to line 121: self.processed_text is assigned
BeginProcessDocuments ==
    \E uploaded_files \in ThreadBatches :
        \E r \in {processed[uploaded_files]} :
            /\ ~writer.busy
            /\ UNCHANGED <<documents_processed, rag_system>>
            /\ UNCHANGED <<documents, loaded, reader>>
            /\ IF r.result
               THEN /\ processed_text' = r.processed_text
                    /\ writer' = [busy |-> TRUE, uploaded_files |-> uploaded_files]
                    /\ UNCHANGED <<call, locals, ret, replaced, exception>>
               ELSE /\ call' = [op |-> "process_documents", arg |-> uploaded_files]
                    /\ locals' = NoLocals
                    /\ ret' = FALSE
                    /\ replaced' = FALSE
                    /\ exception' = NoException
                    /\ UNCHANGED <<processed_text, writer>>

\* process_documents from line 124 on: self.documents is assigned
EndProcessDocuments ==
    /\ writer.busy
    /\ UNCHANGED <<documents_processed, rag_system>>
    /\ \E r \in {processed[writer.uploaded_files]} :
        /\ documents' = r.documents
        /\ loaded' = r.all_text
        /\ writer' = Idle
        /\ call' = [op |-> "process_documents", arg |-> writer.uploaded_files]
        /\ locals' = NoLocals
        /\ ret' = TRUE
        /\ replaced' = \E i \in 1..Len(documents) : documents[i] \notin Range(r.documents)
        /\ exception' = NoException
        /\ UNCHANGED <<processed_text, reader>>

\* generate_summary up to its read of self.processed_text
BeginGenerateSummary ==
    \E summary_type \in SummaryTypes :
        /\ ~reader.busy
        /\ UNCHANGED <<documents_processed, rag_system>>
        /\ UNCHANGED <<documents, processed_text, loaded, writer>>
        /\ IF documents = <<>>
           THEN /\ call' = [op |-> "generate_summary", arg |-> summary_type]
                /\ locals' = NoLocals
                /\ ret' = NoDocumentsMessage
                /\ replaced' = FALSE
                /\ exception' = NoException
                /\ reader' = NotReading
           ELSE /\ reader' = [busy |-> TRUE, op |-> "generate_summary",
                              arg |-> summary_type,
                              text |-> IF ReadsText(summary_type)
                                       THEN processed_text ELSE <<>>,
                              docs |-> <<>>]
                /\ UNCHANGED <<call, locals, ret, replaced, exception>>

\* generate_summary from the loop over self.documents on
EndGenerateSummary ==
    /\ reader.busy
    /\ UNCHANGED <<documents_processed, rag_system>>
    /\ reader.op = "generate_summary"
    /\ \E r \in {extract(documents, reader.text, reader.arg)} :
        /\ call' = [op |-> "generate_summary", arg |-> reader.arg]
        /\ locals' = [f \in DOMAIN NoLocals |-> r[f]]
        /\ ret' = r.result
        /\ replaced' = FALSE
        /\ exception' = NoException
        /\ reader' = [reader EXCEPT !.busy = FALSE, !.docs = documents]
        /\ UNCHANGED <<documents, processed_text, loaded, writer>>

\* ask_question up to the test of its keywords
BeginAskQuestion ==
    \E question \in Questions :
        /\ ~reader.busy
        /\ UNCHANGED <<documents_processed, rag_system>>
        /\ UNCHANGED <<documents, processed_text, loaded, writer>>
        /\ IF documents = <<>> \/ question_keywords(question) = <<>>
           THEN /\ call' = [op |-> "ask_question", arg |-> question]
                /\ locals' = NoLocals
                /\ ret' = ask_question(documents, question).result
                /\ replaced' = FALSE
                /\ exception' = NoException
                /\ reader' = NotReading
           ELSE /\ reader' = [busy |-> TRUE, op |-> "ask_question", arg |-> question,
                              text |-> <<>>, docs |-> <<>>]
                /\ UNCHANGED <<call, locals, ret, replaced, exception>>

\* ask_question from the loop over self.documents on
EndAskQuestion ==
    /\ reader.busy
    /\ UNCHANGED <<documents_processed, rag_system>>
    /\ reader.op = "ask_question"
    /\ \E r \in {answer(documents, reader.arg, question_keywords(reader.arg))} :
        /\ call' = [op |-> "ask_question", arg |-> reader.arg]
        /\ locals' = [f \in DOMAIN NoLocals |-> r[f]]
        /\ ret' = r.result
        /\ replaced' = FALSE
        /\ exception' = NoException
        /\ reader' = [reader EXCEPT !.busy = FALSE, !.docs = documents]
        /\ UNCHANGED <<documents, processed_text, loaded, writer>>

NextThreads ==
    \/ BeginProcessDocuments
    \/ EndProcessDocuments
    \/ BeginGenerateSummary
    \/ EndGenerateSummary
    \/ BeginAskQuestion
    \/ EndAskQuestion

SpecThreads == Init /\ [][NextThreads]_vars

-----------------------------------------------------------------------------
(* The page of main(): the buttons call the three operations on the        *)
(* summarizer kept in st.session_state.  The summary and question controls  *)
(* are drawn only when st.session_state.documents_processed is set.         *)

\* the button "Process Documents" with success stored as the flag
ClickProcessDocumentsStoringSuccess ==
    \E uploaded_files \in Batches \ {<<>>} :
        \E r \in {processed[uploaded_files]} :
            /\ UNCHANGED <<writer, reader, rag_system>>
            /\ call' = [op |-> "process_documents", arg |-> uploaded_files]
            /\ locals' = NoLocals
            /\ ret' = r.result
            /\ exception' = NoException
            /\ documents_processed' = r.result
            /\ IF r.result
               THEN /\ processed_text' = r.processed_text
                    /\ documents' = r.documents
                    /\ loaded' = r.all_text
                    /\ replaced' = \E i \in 1..Len(documents) :
                                       documents[i] \notin Range(r.documents)
               ELSE /\ UNCHANGED <<processed_text, documents, loaded>>
                    /\ replaced' = FALSE

\* the button "Process Documents", drawn when files are uploaded (lines 310-318)
ClickProcessDocuments ==
    \E uploaded_files \in Batches \ {<<>>} :
        \E r \in {processed[uploaded_files]} :
            /\ UNCHANGED <<writer, reader, rag_system>>
            /\ call' = [op |-> "process_documents", arg |-> uploaded_files]
            /\ locals' = NoLocals
            /\ ret' = r.result
            /\ exception' = NoException
            /\ documents_processed' = (r.result \/ documents_processed)
            /\ IF r.result
               THEN /\ processed_text' = r.processed_text
                    /\ documents' = r.documents
                    /\ loaded' = r.all_text
                    /\ replaced' = \E i \in 1..Len(documents) :
                                       documents[i] \notin Range(r.documents)
               ELSE /\ UNCHANGED <<processed_text, documents, loaded>>
                    /\ replaced' = FALSE

\* the button "Generate Summary" (lines 321-335)
ClickGenerateSummary ==
    /\ documents_processed
    /\ \E summary_type \in {"comprehensive", "key_points", "methodology", "findings"} :
        \E r \in {generate_summary(documents, processed_text, summary_type)} :
            /\ UNCHANGED <<writer, reader, documents_processed, rag_system>>
            /\ call' = [op |-> "generate_summary", arg |-> summary_type]
            /\ locals' = [f \in DOMAIN NoLocals |-> r[f]]
            /\ ret' = r.result
            /\ replaced' = FALSE
            /\ exception' = NoException
            /\ UNCHANGED <<documents, processed_text, loaded>>

\* the button "Get Answer", drawn when a question is typed (lines 337-346)
ClickGetAnswer ==
    /\ documents_processed
    /\ \E question \in Questions \ {<<>>} :
        \E r \in {ask_question(documents, question)} :
            /\ UNCHANGED <<writer, reader, documents_processed, rag_system>>
            /\ call' = [op |-> "ask_question", arg |-> question]
            /\ locals' = [f \in DOMAIN NoLocals |-> r[f]]
            /\ ret' = r.result
            /\ replaced' = FALSE
            /\ exception' = NoException
            /\ UNCHANGED <<documents, processed_text, loaded>>

NextSession == ClickProcessDocuments \/ ClickGenerateSummary \/ ClickGetAnswer

SpecSession == Init /\ [][NextSession]_vars

-----------------------------------------------------------------------------
(* src/core: DocumentProcessor, VectorStoreManager and the RAGSummarizer     *)
(* that uses them.  A call either returns a value or raises; a raised        *)
(* exception is its message.  Timestamps (datetime.now()) are left out of    *)
(* the dictionaries the operations return.                                   *)

TxtSuffix ==
    <<".", "t", "x", "t">>

MdSuffix ==
    <<".", "m", "d">>

DocxSuffix ==
    <<".", "d", "o", "c", "x">>

NonexistentPath ==
    <<"n", "o", "n", "e", "x", "i", "s", "t", "e", "n", "t", ".", "p", "d", "f">>

XyzPath ==
    <<"t", "e", "s", "t", ".", "x", "y", "z">>

PaperPath ==
    <<"P", "a", "p", "e", "r", ".", "P", "D", "F">>

ThesisPath ==
    <<"t", "h", "e", "s", "i", "s", ".", "d", "o", "c", "x">>

TestContent ==
    <<"t", "e", "s", "t", " ", "c", "o", "n", "t", "e", "n", "t">>

ProcessorFile ==
    <<"d", "o", "c", "u", "m", "e", "n", "t", "_", "p", "r", "o", "c", "e", "s", "s", "o",
      "r", ".", "p", "y">>

NotInitializedMessage ==
    <<"R", "A", "G", " ", "s", "y", "s", "t", "e", "m", " ", "n", "o", "t", " ", "i", "n",
      "i", "t", "i", "a", "l", "i", "z", "e", "d", ".", " ", "P", "l", "e", "a", "s", "e",
      " ", "p", "r", "o", "c", "e", "s", "s", " ", "a", " ", "d", "o", "c", "u", "m", "e",
      "n", "t", " ", "f", "i", "r", "s", "t", ".">>

StoreNotInitializedMessage ==
    <<"V", "e", "c", "t", "o", "r", " ", "s", "t", "o", "r", "e", " ", "n", "o", "t", " ",
      "i", "n", "i", "t", "i", "a", "l", "i", "z", "e", "d">>

NoPersist ==
    <<"'", "C", "h", "r", "o", "m", "a", "'", " ", "o", "b", "j", "e", "c", "t", " ", "h",
      "a", "s", " ", "n", "o", " ", "a", "t", "t", "r", "i", "b", "u", "t", "e", " ", "'",
      "p", "e", "r", "s", "i", "s", "t", "'">>


\* config.py
MAX_FILE_SIZE == 10 * 1024 * 1024

ALLOWED_EXTENSIONS == <<PdfSuffix, DocxSuffix, TxtSuffix, MdSuffix>>

\* most chunks a collection of the vector store is given
MaxChunks == 2

\* the files on disk: their size in bytes and the texts their loader returns,
\* one for each page of a .pdf and one for any other file
Disk ==
    LET thesis == <<" ", " ", "T", "h", "e", " ", "m", "e", "t", "h", "o", "d", " ", "w", "a",
                    "s", " ", "s", "i", "m", "p", "l", "e", ".", NL>>
    IN  { [path |-> XyzPath, st_size |-> Len(TestContent), pages |-> <<TestContent>>],
          [path |-> <<"t", "e", "s", "t", ".", "t", "x", "t">>,
           st_size |-> Len(TestContent), pages |-> <<TestContent>>],
          [path |-> <<"d", "a", "t", "a", "/", "n", "o", "t", "e", "s", ".", "m", "d">>,
           st_size |-> Len(ReportText), pages |-> <<ReportText>>],
          [path |-> PaperPath, st_size |-> 20480, pages |-> <<PaperPage1, PaperPage2>>],
          [path |-> <<"s", "c", "a", "n", ".", "p", "d", "f">>,
           st_size |-> MAX_FILE_SIZE + 1, pages |-> <<PaperPage1>>],
          [path |-> ThesisPath, st_size |-> MAX_FILE_SIZE, pages |-> <<thesis>>],
          [path |-> <<".", "t", "x", "t">>,
           st_size |-> Len(PetsText), pages |-> <<PetsText>>],
          [path |-> <<"b", "l", "a", "n", "k", ".", "t", "x", "t">>,
           st_size |-> Len(BlankText), pages |-> <<BlankText>>],
          [path |-> <<"a", "r", "c", "h", "i", "v", "e", ".", "v", "2", "/", "r", "e", "a",
                      "d", "m", "e">>,
           st_size |-> Len(PetsText), pages |-> <<PetsText>>],
          [path |-> <<"R", "e", "p", "o", "r", "t", ".", "D", "o", "c", "x">>,
           st_size |-> 4096, pages |-> <<ReportText>>],
          [path |-> <<"s", "u", "m", "m", "a", "r", "y", ".", "T", "X", "T">>,
           st_size |-> Len(PetsText), pages |-> <<PetsText>>] }

\* the paths a call is given: those of the files on disk and one of no file
Paths == {file.path : file \in Disk} \cup {NonexistentPath}

\* return value
Return(value) == [raised |-> FALSE, value |-> value, error |-> <<>>]

\* raise Exception(error)
Raise(error) == [raised |-> TRUE, value |-> None, error |-> error]

\* Path.exists()
exists(file_path) == \E file \in Disk : file.path = file_path

\* Path.stat()
stat(file_path) == CHOOSE file \in Disk : file.path = file_path

\* Path.name: the part after the last "/"
name(file_path) ==
    LET slashes == {i \in 1..Len(file_path) : file_path[i] = "/"}
    IN  IF slashes = {} THEN file_path
        ELSE SubSeq(file_path, (CHOOSE i \in slashes : \A j \in slashes : j <= i) + 1,
                    Len(file_path))

\* Path.suffix: the name from its last "." on, unless that is its first or its
\* last character
suffix(file_path) ==
    LET dots == {i \in 1..Len(name(file_path)) : name(file_path)[i] = "."}
        last == CHOOSE i \in dots : \A j \in dots : j <= i
    IN  IF dots = {} THEN <<>>
        ELSE IF last = 1 \/ last = Len(name(file_path)) THEN <<>>
        ELSE SubSeq(name(file_path), last, Len(name(file_path)))

\* the methods class DocumentProcessor defines
DocumentProcessor ==
    {"load_document", "process_documents", "load_and_process", "validate_file"}

\* the methods class VectorStoreManager defines
VectorStoreManager ==
    {"create_vector_store", "load_vector_store", "add_documents", "create_retriever",
     "similarity_search", "delete_collection", "get_collection_info"}

load_document(file_path) ==
    LET extension == lower(suffix(file_path))
    IN  IF extension \notin {PdfSuffix, TxtSuffix, MdSuffix, DocxSuffix}
        THEN Raise(<<"U", "n", "s", "u", "p", "p", "o", "r", "t", "e", "d", " ", "f", "i", "l",
                     "e", " ", "f", "o", "r", "m", "a", "t", ":", " ">> \o extension)
        ELSE IF ~exists(file_path)
        THEN Raise(<<"F", "i", "l", "e", " ", "p", "a", "t", "h", " ">> \o file_path
                   \o <<" ", "i", "s", " ", "n", "o", "t", " ", "a", " ", "v", "a", "l", "i",
                         "d", " ", "f", "i", "l", "e", " ", "o", "r", " ", "u", "r", "l">>)
        ELSE IF extension = PdfSuffix
        THEN Return(tuple([i \in 1..Len(stat(file_path).pages) |->
                              [page_content |-> stat(file_path).pages[i],
                               metadata |-> [source |-> file_path, page |-> i - 1]]]))
        ELSE Return(<<[page_content |-> stat(file_path).pages[1],
                       metadata |-> [source |-> file_path]]>>)

\* RecursiveCharacterTextSplitter.split_text of a text shorter than
\* config.CHUNK_SIZE (1000 characters unless the environment sets it), as the
\* texts on Disk are: the text stripped, and nothing for a text of whitespace
split_text(text) == IF strip(text) = <<>> THEN <<>> ELSE <<strip(text)>>

\* text_splitter.split_documents: the chunks of each document in turn, each
\* with a copy of its document's metadata
split_documents(docs) ==
    flatten([i \in 1..Len(docs) |->
                tuple([k \in 1..Len(split_text(docs[i].page_content)) |->
                          [page_content |-> split_text(docs[i].page_content)[k],
                           metadata |-> docs[i].metadata]])])

\* process_documents with enumerate started again for each document
document_processor_process_documents_per_document(docs) ==
    Return(flatten([d \in 1..Len(docs) |->
        LET chunks == split_documents(<<docs[d]>>)
        IN  tuple([i \in 1..Len(chunks) |->
                     [page_content |-> chunks[i].page_content,
                      metadata |-> [chunk_id |-> i - 1,
                                    processed_at |-> ProcessorFile,
                                    chunk_size |-> Len(chunks[i].page_content)]
                                   @@ chunks[i].metadata]])]))

\* DocumentProcessor.process_documents
document_processor_process_documents(docs) ==
    LET chunks == split_documents(docs)
    IN  Return(tuple([i \in 1..Len(chunks) |->
                        [page_content |-> chunks[i].page_content,
                         metadata |-> [chunk_id |-> i - 1,
                                       processed_at |-> ProcessorFile,
                                       chunk_size |-> Len(chunks[i].page_content)]
                                      @@ chunks[i].metadata]]))

load_and_process(file_path) ==
    LET docs == load_document(file_path)
    IN  IF docs.raised THEN docs
        ELSE document_processor_process_documents(docs.value)

\* validate_file with the extension compared as written
validate_file_case_sensitive(file_path) ==
    IF file_path = None THEN FALSE
    ELSE IF ~exists(file_path) THEN FALSE
    ELSE IF suffix(file_path) \notin Range(ALLOWED_EXTENSIONS) THEN FALSE
    ELSE IF stat(file_path).st_size > MAX_FILE_SIZE THEN FALSE
    ELSE TRUE

\* validate_file: Path(None) raises TypeError, which line 134 catches
validate_file(file_path) ==
    IF file_path = None THEN FALSE
    ELSE IF ~exists(file_path) THEN FALSE
    ELSE IF lower(suffix(file_path)) \notin Range(ALLOWED_EXTENSIONS) THEN FALSE
    ELSE IF stat(file_path).st_size > MAX_FILE_SIZE THEN FALSE
    ELSE TRUE

\* the document lists process_documents is given: the documents of at most
\* MaxBatch files that load
DocumentLists ==
    LET loads == {load_document(file_path).value :
                      file_path \in {p \in Paths : ~load_document(p).raised}}
    IN  UNION {{flatten(lists) : lists \in [1..n -> loads]} : n \in 0..MaxBatch}

\* self.document_processor: what its methods give for each path and each
\* document list, computed once
document_processor ==
    [validate_file |->
         [file_path \in Paths \cup {None} |-> validate_file(file_path)] @@ <<>>,
     load_document |->
         [file_path \in Paths |-> load_document(file_path)] @@ <<>>,
     process_documents |->
         [docs \in DocumentLists |-> document_processor_process_documents(docs)] @@ <<>>,
     load_and_process |->
         [file_path \in Paths |-> load_and_process(file_path)] @@ <<>>]

\* the chunk lists a vector store is given: those of the files that load
ChunkLists ==
    {document_processor.load_and_process[file_path].value :
         file_path \in {p \in Paths : ~document_processor.load_and_process[p].raised}}

\* the chunks of the collection a manager's vector store holds
collection(manager) ==
    IF manager.vector_store = None THEN <<>> ELSE manager.vector_store[2]

\* VectorStoreManager.create_vector_store: Chroma.from_documents adds the
\* documents to the collection of that name in the directory; persist: the
\* installed Chroma class has a persist method
create_vector_store(manager, docs, persist) ==
    [self |-> [manager EXCEPT !.vector_store = <<"Chroma", collection(manager) \o docs>>],
     outcome |-> IF persist THEN Return(<<"Chroma", collection(manager) \o docs>>)
                 ELSE Raise(NoPersist)]

\* VectorStoreManager.add_documents
add_documents(manager, docs, persist) ==
    IF manager.vector_store = None
    THEN [self |-> manager, outcome |-> Raise(StoreNotInitializedMessage)]
    ELSE [self |-> [manager EXCEPT !.vector_store = <<"Chroma", collection(manager) \o docs>>],
          outcome |-> IF persist THEN Return(None) ELSE Raise(NoPersist)]

\* VectorStoreManager.create_retriever
create_retriever(manager, k) ==
    IF manager.vector_store = None
    THEN [self |-> manager, outcome |-> Raise(StoreNotInitializedMessage)]
    ELSE [self |-> [manager EXCEPT !.retriever = <<"retriever", k>>],
          outcome |-> Return(<<"retriever", k>>)]

\* VectorStoreManager.delete_collection
delete_collection(manager) ==
    IF manager.vector_store # None
    THEN [self |-> [vector_store |-> None, retriever |-> None], outcome |-> Return(None)]
    ELSE [self |-> manager, outcome |-> Return(None)]

\* RAGSummarizer.initialize_system: line 54 calls a method VectorStoreManager
\* does not define, before any field is assigned
initialize_system(self, docs) ==
    IF "initialize_vector_store" \notin VectorStoreManager
    THEN [self |-> self, outcome |-> Raise(<<"'", "V", "e", "c", "t", "o", "r", "S", "t", "o",
                                             "r", "e", "M", "a", "n", "a", "g", "e", "r", "'",
                                             " ", "o", "b", "j", "e", "c", "t", " ", "h", "a",
                                             "s", " ", "n", "o", " ", "a", "t", "t", "r", "i",
                                             "b", "u", "t", "e", " ", "'", "i", "n", "i", "t",
                                             "i", "a", "l", "i", "z", "e", "_", "v", "e", "c",
                                             "t", "o", "r", "_", "s", "t", "o", "r", "e", "'">>)]
    ELSE [self |-> [self EXCEPT !.vector_store = <<"Chroma", docs>>,
                                !.retriever = <<"retriever", 6>>,
                                !.qa_chain = <<"RetrievalQA">>],
          outcome |-> Return(None)]

\* RAGSummarizer.process_document; valid and loaded_chunks: what validate_file
\* and load_and_process give for file_path; e: str(e) of the exception line
\* 121 catches, None when none is raised
process_document(self, file_path, persist) ==
    LET result(valid, loaded_chunks) ==
            LET docs ==
                    tuple([i \in 1..Len(loaded_chunks.value) |->
                             [page_content |-> loaded_chunks.value[i].page_content,
                              metadata |->
                                  [source_file |-> file_path,
                                   processed_at |-> <<"now">>,
                                   document_type |-> <<"r", "e", "s", "e", "a", "r", "c", "h",
                                                       "_", "p", "a", "p", "e", "r">>]
                                  @@ loaded_chunks.value[i].metadata]])
                stored ==
                    IF self.vector_store = None
                    THEN initialize_system(self, docs)
                    ELSE LET added == add_documents(self.vector_store_manager, docs, persist)
                         IN  [self |-> [self EXCEPT !.vector_store_manager = added.self],
                              outcome |-> added.outcome]
                e == IF ~valid
                     THEN <<"I", "n", "v", "a", "l", "i", "d", " ", "o", "r", " ", "u", "n",
                            "s", "u", "p", "p", "o", "r", "t", "e", "d", " ", "f", "i", "l",
                            "e", ":", " ">>
                          \o (IF file_path = None THEN <<"N", "o", "n", "e">> ELSE file_path)
                     ELSE IF loaded_chunks.raised THEN loaded_chunks.error
                     ELSE IF stored.outcome.raised THEN stored.outcome.error
                     ELSE IF "get_document_count" \notin VectorStoreManager
                     THEN <<"'", "V", "e", "c", "t", "o", "r", "S", "t", "o", "r", "e", "M",
                            "a", "n", "a", "g", "e", "r", "'", " ", "o", "b", "j", "e", "c",
                            "t", " ", "h", "a", "s", " ", "n", "o", " ", "a", "t", "t", "r",
                            "i", "b", "u", "t", "e", " ", "'", "g", "e", "t", "_", "d", "o",
                            "c", "u", "m", "e", "n", "t", "_", "c", "o", "u", "n", "t", "'">>
                     ELSE None
            IN  [self |-> IF ~valid THEN self
                          ELSE IF loaded_chunks.raised THEN self
                          ELSE stored.self,
                 outcome |-> Return(IF e = None
                                    THEN [success |-> TRUE, file_path |-> file_path,
                                          chunks_created |-> Len(docs)]
                                    ELSE [success |-> FALSE, file_path |-> file_path,
                                          error |-> e])]
    IN  result(document_processor.validate_file[file_path],
               IF file_path \in Paths THEN document_processor.load_and_process[file_path]
               ELSE Raise(<<>>))

\* RAGSummarizer.generate_summary; result: what the QA chain answers
rag_summarizer_generate_summary(self, summary_type, result) ==
    IF self.qa_chain = None
    THEN Return([success |-> FALSE, summary_type |-> summary_type,
                 error |-> NotInitializedMessage])
    ELSE Return([success |-> TRUE, summary_type |-> summary_type, summary |-> result])

\* RAGSummarizer.ask_question
rag_summarizer_ask_question(self, question, result) ==
    IF self.qa_chain = None
    THEN Return([success |-> FALSE, question |-> question,
                 error |-> NotInitializedMessage])
    ELSE Return([success |-> TRUE, question |-> question, answer |-> result])

\* RAGSummarizer.clear_knowledge_base: line 291 calls a method
\* VectorStoreManager does not define; line 299 catches the AttributeError
clear_knowledge_base(self) ==
    IF "clear_vector_store" \notin VectorStoreManager
    THEN [self |-> self, outcome |-> Return(FALSE),
          error |-> <<"'", "V", "e", "c", "t", "o", "r", "S", "t", "o", "r", "e", "M", "a",
                      "n", "a", "g", "e", "r", "'", " ", "o", "b", "j", "e", "c", "t", " ",
                      "h", "a", "s", " ", "n", "o", " ", "a", "t", "t", "r", "i", "b", "u",
                      "t", "e", " ", "'", "c", "l", "e", "a", "r", "_", "v", "e", "c", "t",
                      "o", "r", "_", "s", "t", "o", "r", "e", "'">>]
    ELSE [self |-> [self EXCEPT !.vector_store = None, !.retriever = None,
                                !.qa_chain = None,
                                !.vector_store_manager = delete_collection(@).self],
          outcome |-> Return(TRUE), error |-> <<>>]

\* the state of app.py, which the classes of src/core leave alone
app == <<documents, processed_text, loaded, replaced, writer, reader, documents_processed>>

\* the RAGSummarizer object
Self ==
    [vector_store |-> vector_store, retriever |-> retriever, qa_chain |-> qa_chain,
     vector_store_manager |-> vector_store_manager]

\* the fields of the object after a call
Assign(self) ==
    /\ vector_store' = self.vector_store
    /\ retriever' = self.retriever
    /\ qa_chain' = self.qa_chain
    /\ vector_store_manager' = self.vector_store_manager

\* the call and how it ended: the value it returned or the exception it raised
Record(op, arg, outcome) ==
    /\ call' = [op |-> op, arg |-> arg]
    /\ locals' = NoLocals
    /\ ret' = outcome.value
    /\ exception' = IF outcome.raised
                    THEN [message |-> outcome.error, caught |-> FALSE]
                    ELSE NoException

ValidateFile ==
    /\ "validate_file" \in DocumentProcessor
    /\ \E file_path \in Paths \cup {None} :
           /\ Record("validate_file", file_path,
                     Return(document_processor.validate_file[file_path]))
           /\ UNCHANGED <<app, rag_system>>

LoadDocument ==
    /\ "load_document" \in DocumentProcessor
    /\ \E file_path \in Paths :
           /\ Record("load_document", file_path, document_processor.load_document[file_path])
           /\ UNCHANGED <<app, rag_system>>

ProcessLoadedDocuments ==
    /\ "process_documents" \in DocumentProcessor
    /\ \E docs \in DocumentLists :
           /\ Record("process_documents", docs, document_processor.process_documents[docs])
           /\ UNCHANGED <<app, rag_system>>

LoadAndProcess ==
    /\ "load_and_process" \in DocumentProcessor
    /\ \E file_path \in Paths :
           /\ Record("load_and_process", file_path,
                     document_processor.load_and_process[file_path])
           /\ UNCHANGED <<app, rag_system>>

\* processor.get_supported_formats(), as test_get_supported_formats calls it
GetSupportedFormats ==
    /\ Record("get_supported_formats", <<>>,
              IF "get_supported_formats" \notin DocumentProcessor
              THEN Raise(<<"'", "D", "o", "c", "u", "m", "e", "n", "t", "P", "r", "o", "c",
                           "e", "s", "s", "o", "r", "'", " ", "o", "b", "j", "e", "c", "t",
                           " ", "h", "a", "s", " ", "n", "o", " ", "a", "t", "t", "r", "i",
                           "b", "u", "t", "e", " ", "'", "g", "e", "t", "_", "s", "u", "p",
                           "p", "o", "r", "t", "e", "d", "_", "f", "o", "r", "m", "a", "t",
                           "s", "'">>)
              ELSE Return(ALLOWED_EXTENSIONS))
    /\ UNCHANGED <<app, rag_system>>

\* the calls of a DocumentProcessor, which keeps no state between them
NextProcessor ==
    \/ ValidateFile
    \/ LoadDocument
    \/ ProcessLoadedDocuments
    \/ LoadAndProcess
    \/ GetSupportedFormats

SpecProcessor == Init /\ [][NextProcessor]_vars

CreateVectorStore ==
    /\ "create_vector_store" \in VectorStoreManager
    /\ \E docs \in ChunkLists \ {<<>>}, persist \in BOOLEAN :
           /\ Len(collection(vector_store_manager)) + Len(docs) <= MaxChunks
           /\ \E r \in {create_vector_store(vector_store_manager, docs, persist)} :
                  /\ vector_store_manager' = r.self
                  /\ Record("create_vector_store", docs, r.outcome)
           /\ UNCHANGED <<app, vector_store, retriever, qa_chain>>

AddDocuments ==
    /\ "add_documents" \in VectorStoreManager
    /\ \E docs \in ChunkLists \ {<<>>}, persist \in BOOLEAN :
           /\ Len(collection(vector_store_manager)) + Len(docs) <= MaxChunks
           /\ \E r \in {add_documents(vector_store_manager, docs, persist)} :
                  /\ vector_store_manager' = r.self
                  /\ Record("add_documents", docs, r.outcome)
           /\ UNCHANGED <<app, vector_store, retriever, qa_chain>>

CreateRetriever ==
    /\ "create_retriever" \in VectorStoreManager
    /\ \E k \in {5, 6} :
           \E r \in {create_retriever(vector_store_manager, k)} :
               /\ vector_store_manager' = r.self
               /\ Record("create_retriever", k, r.outcome)
               /\ UNCHANGED <<app, vector_store, retriever, qa_chain>>

DeleteCollection ==
    /\ "delete_collection" \in VectorStoreManager
    /\ \E r \in {delete_collection(vector_store_manager)} :
           /\ vector_store_manager' = r.self
           /\ Record("delete_collection", <<>>, r.outcome)
           /\ UNCHANGED <<app, vector_store, retriever, qa_chain>>

InitializeSystem ==
    \E docs \in ChunkLists :
        \E r \in {initialize_system(Self, docs)} :
            /\ Assign(r.self)
            /\ Record("initialize_system", docs, r.outcome)
            /\ UNCHANGED app

ProcessDocument ==
    \E file_path \in Paths \cup {None}, persist \in BOOLEAN :
        \E r \in {process_document(Self, file_path, persist)} :
            /\ Assign(r.self)
            /\ call' = [op |-> "process_document", arg |-> file_path]
            /\ locals' = NoLocals
            /\ ret' = r.outcome.value
            /\ exception' = IF r.outcome.value.success THEN NoException
                            ELSE [message |-> r.outcome.value.error, caught |-> TRUE]
            /\ UNCHANGED app

RagGenerateSummary ==
    \E summary_type \in SummaryTypes, result \in {TestContent} :
        \E r \in {rag_summarizer_generate_summary(Self, summary_type, result)} :
            /\ call' = [op |-> "generate_summary", arg |-> summary_type]
            /\ locals' = NoLocals
            /\ ret' = r.value
            /\ exception' = IF r.value.success THEN NoException
                            ELSE [message |-> r.value.error, caught |-> TRUE]
            /\ UNCHANGED <<app, rag_system>>

RagAskQuestion ==
    \E question \in Questions, result \in {TestContent} :
        \E r \in {rag_summarizer_ask_question(Self, question, result)} :
            /\ call' = [op |-> "ask_question", arg |-> question]
            /\ locals' = NoLocals
            /\ ret' = r.value
            /\ exception' = IF r.value.success THEN NoException
                            ELSE [message |-> r.value.error, caught |-> TRUE]
            /\ UNCHANGED <<app, rag_system>>

ClearKnowledgeBase ==
    \E r \in {clear_knowledge_base(Self)} :
        /\ Assign(r.self)
        /\ call' = [op |-> "clear_knowledge_base", arg |-> <<>>]
        /\ locals' = NoLocals
        /\ ret' = r.outcome.value
        /\ exception' = IF r.error = <<>> THEN NoException
                        ELSE [message |-> r.error, caught |-> TRUE]
        /\ UNCHANGED app

NextCore ==
    \/ CreateVectorStore
    \/ AddDocuments
    \/ CreateRetriever
    \/ DeleteCollection
    \/ InitializeSystem
    \/ ProcessDocument
    \/ RagGenerateSummary
    \/ RagAskQuestion
    \/ ClearKnowledgeBase

SpecCore == Init /\ [][NextCore]_vars

-----------------------------------------------------------------------------
(* Properties.  They read the recorded call: its argument, the values of   *)
(* its local variables and its result.                                     *)

KeyPointsTitle ==
    <<"K", "E", "Y", " ", "P", "O", "I", "N", "T", "S">>

MethodologyTitle ==
    <<"M", "E", "T", "H", "O", "D", "O", "L", "O", "G", "Y">>

FindingsTitle ==
    <<"F", "I", "N", "D", "I", "N", "G", "S", " ", "&", " ", "R", "E", "S", "U", "L", "T",
      "S">>

ComprehensiveTitle ==
    <<"C", "O", "M", "P", "R", "E", "H", "E", "N", "S", "I", "V", "E", " ", "S", "U", "M",
      "M", "A", "R", "Y">>

FourKinds == {"key_points", "methodology", "findings", "comprehensive"}

Title(kind) ==
    CASE kind = "key_points" -> KeyPointsTitle
      [] kind = "methodology" -> MethodologyTitle
      [] kind = "findings" -> FindingsTitle
      [] kind = "comprehensive" -> ComprehensiveTitle

\* the last call was generate_summary(kind)
Summarized(kind) == call.op = "generate_summary" /\ call.arg = kind

\* the last call was ask_question(question)
Asked(question) == call.op = "ask_question" /\ call.arg = question

\* some slice of s equals k
Occurs(k, s) ==
    \E a \in 1..(Len(s) - Len(k) + 1) : SubSeq(s, a, a + Len(k) - 1) = k

\* the terms of a vocabulary that occur in the lower-cased sentence
TermsIn(keywords, sentence) ==
    {j \in 1..Len(keywords) : Occurs(keywords[j], lower(sentence))}

\* some sentence of the corpus holds a term of the vocabulary
SomeSentenceHas(keywords) ==
    \E i \in 1..Len(documents) : TermsIn(keywords, documents[i]) # {}

\* the corpus was processed from a non-empty list of non-empty texts
NonEmptyTexts == loaded # <<>> /\ \A i \in 1..Len(loaded) : loaded[i] # <<>>

\* ... all of them whitespace
OnlyWhitespace == \A i \in 1..Len(loaded) : Range(loaded[i]) \subseteq Whitespace

\* C1, as stated: after processing non-empty texts, generate_summary returns for
\* each of the four kinds a non-empty string that contains the kind's header.
C1_EveryKindHasItsHeader ==
    \A kind \in FourKinds :
        (Summarized(kind) /\ NonEmptyTexts) => (ret # <<>> /\ Occurs(Title(kind), ret))

\* C1, amended: the result is never empty; it is the "No documents processed yet."
\* message when the texts are whitespace only; otherwise key_points and
\* comprehensive contain their header, and methodology and findings contain
\* theirs when some sentence holds a term of their vocabulary and are the fixed
\* "No clear ... sections found" message when none does.
C1_HeaderOrFixedMessage ==
    \A kind \in FourKinds :
        (Summarized(kind) /\ NonEmptyTexts) =>
            /\ ret # <<>>
            /\ OnlyWhitespace => ret = NoDocumentsMessage
            /\ ~OnlyWhitespace =>
                /\ kind \in {"key_points", "comprehensive"} => Occurs(Title(kind), ret)
                /\ kind = "methodology" =>
                       IF SomeSentenceHas(method_keywords)
                       THEN Occurs(Title(kind), ret) ELSE ret = NoMethodologyMessage
                /\ kind = "findings" =>
                       IF SomeSentenceHas(finding_keywords)
                       THEN Occurs(Title(kind), ret) ELSE ret = NoFindingsMessage

C1_Witness ==
    /\ Summarized("findings")
    /\ NonEmptyTexts
    /\ SomeSentenceHas(finding_keywords)
    /\ Occurs(FindingsTitle, ret)

\* C2: on an empty corpus generate_summary returns "No documents processed yet."
\* for every kind and ask_question returns it for every question, also for a
\* question without keywords.
C2_EmptyCorpusMessage ==
    (documents = <<>> /\ call.op \in {"generate_summary", "ask_question"}) =>
        ret = NoDocumentsMessage

C2_Witness ==
    /\ documents = <<>>
    /\ loaded = <<>>
    /\ Asked(QuestionStopOnly)
    /\ question_keywords(QuestionStopOnly) = <<>>
    /\ ret = NoDocumentsMessage

\* the corpus sentences paired with the given scores, in corpus order
Paired(scores) == tuple([i \in 1..Len(documents) |-> <<scores[i], documents[i]>>])

\* the pairs scoring at least `least`: the highest score first, and the pairs of
\* one score in corpus order
Ranked(scores, highest, least) ==
    flatten([k \in 1..(highest - least + 1) |->
                SelectSeq(Paired(scores), LAMBDA p : p[1] = highest + 1 - k)])

\* the last call built a ranked list: key_points, or ask_question with keywords
RankingCall ==
    /\ documents # <<>>
    /\ \/ Summarized("key_points")
       \/ call.op = "ask_question" /\ locals.keywords # <<>>

\* the least score a sentence needs to enter the ranked list of the last call
LeastScore == IF call.op = "ask_question" THEN 1 ELSE KeyPointMinScore

\* C3: the ranked list of key_points and of ask_question is in descending score
\* order, and sentences of equal score keep their corpus order.
C3_RankingIsStable ==
    RankingCall =>
        locals.selected = Ranked(locals.scores, Len(locals.keywords), LeastScore)

C3_Witness ==
    /\ call.op = "ask_question"
    /\ Len(documents) = 3
    /\ Len(locals.scores) = 3
    /\ locals.scores[1] = locals.scores[3]
    /\ locals.scores[1] > locals.scores[2]
    /\ locals.scores[2] >= 1
    /\ second(locals.selected) = <<documents[1], documents[3], documents[2]>>

\* the last call scored the corpus sentences
ScoringCall ==
    /\ documents # <<>>
    /\ \/ call.op = "generate_summary"
       \/ call.op = "ask_question" /\ locals.keywords # <<>>

\* the offsets at which k occurs in s
Offsets(k, s) == {a \in 1..(Len(s) - Len(k) + 1) : SubSeq(s, a, a + Len(k) - 1) = k}

\* C4: the score of a sentence is the number of keywords of the collection that
\* occur in the lower-cased sentence as a substring; a keyword occurring several
\* times in the sentence counts 1.
C4_ScoreCountsContainedKeywords ==
    ScoringCall =>
        /\ Len(locals.scores) = Len(documents)
        /\ \A i \in 1..Len(documents) :
               locals.scores[i] = Cardinality(TermsIn(locals.keywords, documents[i]))

C4_Witness ==
    /\ Summarized("methodology")
    /\ \E i \in 1..Len(documents) :
           \E j \in TermsIn(method_keywords, documents[i]) :
               /\ method_keywords[j] \notin Range(word_tokenize(lower(documents[i])))
               /\ locals.scores[i] >= 1
    /\ \E i \in 1..Len(documents) :
           \E j \in 1..Len(method_keywords) :
               /\ Cardinality(Offsets(method_keywords[j], lower(documents[i]))) >= 2
               /\ locals.scores[i] = Cardinality(TermsIn(method_keywords, documents[i]))

\* the number of distinct keywords that occur in each corpus sentence
DistinctScores(keywords) ==
    tuple([i \in 1..Len(documents) |->
              Cardinality({k \in Range(keywords) : Occurs(k, lower(documents[i]))})])

\* C5: in ask_question the keywords form a set: a sentence scores the number of
\* distinct question keywords it contains, so a word repeated in the question
\* counts once and does not change the ranking.
C5_RepeatedWordCountsOnce ==
    (call.op = "ask_question" /\ documents # <<>> /\ locals.keywords # <<>>) =>
        /\ locals.scores = DistinctScores(locals.keywords)
        /\ second(locals.selected)
               = second(Ranked(DistinctScores(locals.keywords), Len(locals.keywords), 1))

\* the last call was the methodology or the findings strategy on a corpus
SectionCall ==
    documents # <<>> /\ (Summarized("methodology") \/ Summarized("findings"))

\* "• sentence\n\n" for every sentence of the list
Bullets(sentences) ==
    flatten([i \in 1..Len(sentences) |-> <<BULLET, " ">> \o sentences[i] \o <<NL, NL>>])

\* "1. sentence\n\n", "2. sentence\n\n", ... for the sentences of the list
Numbers(sentences) ==
    flatten([i \in 1..Len(sentences) |->
                decimal(i) \o <<".", " ">> \o sentences[i] \o <<NL, NL>>])

\* the corpus sentences that hold a term of the vocabulary, in corpus order
Matching(keywords) == SelectSeq(documents, LAMBDA s : TermsIn(keywords, s) # {})

\* C6, as stated: methodology and findings list at most the first 7 of the
\* sentences holding a term of their vocabulary, ranked by descending score
\* with ties in corpus order.
C6_SectionsRankedByScore ==
    SectionCall =>
        locals.listed
            = Take(second(Ranked(locals.scores, Len(locals.keywords), 1)), 7)

\* C6, amended: methodology and findings select the sentences holding a term of
\* their fixed ten-term vocabulary, keep them in corpus order, and output at
\* most the first 7 of them.
C6_SectionsInCorpusOrder ==
    SectionCall =>
        /\ Len(locals.keywords) = 10
        /\ locals.keywords
               = IF Summarized("methodology") THEN method_keywords ELSE finding_keywords
        /\ locals.selected = Matching(locals.keywords)
        /\ locals.listed = Take(Matching(locals.keywords), 7)
        /\ locals.listed # <<>> =>
               ret = (IF Summarized("methodology") THEN MethodologyHeader
                      ELSE FindingsHeader) \o Bullets(locals.listed)

C6_Witness ==
    /\ Summarized("methodology")
    /\ Len(Matching(method_keywords)) > 7
    /\ Len(locals.listed) = 7
    /\ \E i, j \in 1..Len(documents) :
           i < j /\ locals.scores[i] >= 1 /\ locals.scores[i] < locals.scores[j]

\* the last call was the key_points strategy on a corpus
KeyPointsCall == documents # <<>> /\ Summarized("key_points")

\* the lower-cased tokens of the text that are alphabetic, no stop words and
\* longer than 3 characters
Candidates ==
    SelectSeq(word_tokenize(lower(processed_text)),
              LAMBDA w : isalpha(w) /\ w \notin stop_words /\ Len(w) > 3)

Occurrences(w, words) == Cardinality({i \in 1..Len(words) : words[i] = w})

\* C7: the keywords of key_points are the 10 most frequent candidates of the
\* text, and it lists at most 5 sentences: the highest ranked of those holding
\* at least 2 of the keywords; a sentence holding fewer than 2 is never listed.
C7_KeyPointsSelection ==
    KeyPointsCall =>
        LET words == Candidates
            keywords == locals.keywords
        IN  /\ Range(keywords) \subseteq Range(words)
            /\ Cardinality(Range(keywords)) = Len(keywords)
            /\ Len(keywords) = Min(10, Cardinality(Range(words)))
            /\ \A w \in Range(keywords) : \A v \in Range(words) \ Range(keywords) :
                   Occurrences(w, words) >= Occurrences(v, words)
            /\ locals.listed
                   = Take(second(Ranked(DistinctScores(keywords), Len(keywords), 2)), 5)
            /\ \A i \in 1..Len(locals.listed) :
                   Cardinality({k \in Range(keywords) :
                                   Occurs(k, lower(locals.listed[i]))}) >= 2
            /\ ret = KeyPointsHeader \o Numbers(locals.listed)

C7_Witness ==
    /\ KeyPointsCall
    /\ Cardinality(Range(Candidates)) > 10
    /\ Len(locals.keywords) = 10
    /\ Len(locals.selected) > 5
    /\ Len(locals.listed) = 5
    /\ \E i \in 1..Len(documents) : locals.scores[i] < 2

\* C8: on a corpus without any methodology term the methodology strategy
\* returns "No clear methodology sections found in the documents.", and on one
\* without any findings term the findings strategy returns "No clear findings
\* sections found in the documents."; neither returns a header with an empty list.
C8_NoSectionMessage ==
    /\ (documents # <<>> /\ Summarized("methodology")
            /\ ~SomeSentenceHas(method_keywords)) => ret = NoMethodologyMessage
    /\ (documents # <<>> /\ Summarized("findings")
            /\ ~SomeSentenceHas(finding_keywords)) => ret = NoFindingsMessage
    /\ SectionCall => ret \notin {MethodologyHeader, FindingsHeader}

C8_Witness ==
    /\ documents # <<>>
    /\ Summarized("findings")
    /\ ~SomeSentenceHas(finding_keywords)
    /\ ret = NoFindingsMessage

\* the last call was the comprehensive strategy on a corpus
ComprehensiveCall == documents # <<>> /\ Summarized("comprehensive")

\* s ends with t
EndsWith(s, t) == Len(t) <= Len(s) /\ SubSeq(s, Len(s) - Len(t) + 1, Len(s)) = t

\* the first 3 of: the first 2 corpus sentences, then the last 2 when the corpus
\* has more than 4 sentences
Overview ==
    LET n == Len(documents)
        combined == SubSeq(documents, 1, Min(2, n))
                    \o (IF n > 4 THEN SubSeq(documents, n - 1, n) ELSE <<>>)
    IN  SubSeq(combined, 1, Min(3, Len(combined)))

\* C9: the overview of comprehensive is the first 3 of the first 2 corpus
\* sentences followed, when the corpus has more than 4 sentences, by the last 2;
\* a complete key_points block follows it, and the header reports the size of
\* the corpus as the sentence count.
C9_ComprehensiveOverview ==
    ComprehensiveCall =>
        /\ locals.listed = Overview
        /\ locals.key_points
               = generate_summary(documents, processed_text, "key_points").result
        /\ EndsWith(ret, locals.listed[Len(locals.listed)] \o <<NL, NL>>
                             \o locals.key_points)
        /\ Occurs(StatisticsPrefix \o decimal(Len(documents)) \o StatisticsMiddle, ret)

C9_Witness ==
    /\ ComprehensiveCall
    /\ Len(documents) > 4
    /\ Len(locals.listed) = 3
    /\ locals.listed[3] = documents[Len(documents) - 1]
    /\ locals.key_points # KeyPointsHeader

\* the header of comprehensive with its statistics line and overview heading
ComprehensiveHead ==
    ComprehensiveHeader
    \o StatisticsPrefix \o decimal(Len(documents))
    \o StatisticsMiddle \o decimal(Len(word_tokenize(processed_text)))
    \o StatisticsSuffix \o OverviewHeader

\* the sentences of the key-points block of the last call
KeyListed == Take(second(Ranked(locals.scores, Len(locals.keywords), 2)), 5)

\* the list styles on which C10 as stated and as amended agree
C10_OwnLists ==
    /\ KeyPointsCall => ret = KeyPointsHeader \o Numbers(locals.listed)
    /\ (SectionCall /\ locals.listed # <<>>) =>
           ret = (IF Summarized("methodology") THEN MethodologyHeader
                  ELSE FindingsHeader) \o Bullets(locals.listed)

\* C10, as stated: key_points and the overview of comprehensive are numbered
\* lists; methodology, findings and the key-points block inside comprehensive
\* are bulleted lists.
C10_OverviewNumbered ==
    /\ C10_OwnLists
    /\ ComprehensiveCall =>
           ret = ComprehensiveHead \o Numbers(locals.listed)
                 \o KeyPointsHeader \o Bullets(KeyListed)

\* C10, amended: the sentences of key_points, also in the key-points block inside
\* comprehensive, are a numbered list; the sentences of methodology, of findings
\* and of the overview of comprehensive are a bulleted list.
C10_OverviewBulleted ==
    /\ C10_OwnLists
    /\ ComprehensiveCall =>
           ret = ComprehensiveHead \o Bullets(locals.listed)
                 \o KeyPointsHeader \o Numbers(KeyListed)

C10_Witness ==
    /\ ComprehensiveCall
    /\ KeyListed # <<>>
    /\ Occurs(OverviewHeader \o <<BULLET, " ">> \o locals.listed[1], ret)
    /\ Occurs(KeyPointsHeader \o <<"1", ".", " ">> \o KeyListed[1], ret)

\* the last call was ask_question on a corpus with a question that has keywords
AnswerCall ==
    /\ call.op = "ask_question"
    /\ documents # <<>>
    /\ question_keywords(call.arg) # <<>>

\* the header of an answer and its introduction, for the question as asked
AnswerHead(question) == AnswerPrefix \o question \o AnswerSuffix \o AnswerIntro

\* the sentences ask_question keeps and their ranking, as C11 states them
AnswerRanking ==
    /\ Len(locals.selected) = Len(Matching(lower_all(locals.keywords)))
    /\ \A i \in 1..Len(locals.selected) : locals.selected[i][1] >= 1
    /\ locals.selected = Ranked(locals.scores, Len(locals.keywords), 1)
    /\ locals.listed = Take(second(locals.selected), 5)

\* C11, as stated: on a corpus and a question with a keyword, ask_question keeps
\* the sentences scoring at least 1, ranks them by descending score with ties in
\* corpus order, and returns at most the top 5 as a numbered list under a header
\* that holds the question as asked.
C11_AnswerAlwaysUnderHeader ==
    AnswerCall =>
        /\ AnswerRanking
        /\ ret = AnswerHead(call.arg) \o Numbers(locals.listed)

\* C11, amended: ... it returns them so when at least one sentence scores 1 or
\* more; when none does it returns "No relevant information found for your
\* question.", which holds neither the header nor the question.
C11_AnswerTopFiveUnderQuestion ==
    AnswerCall =>
        /\ AnswerRanking
        /\ locals.selected # <<>> =>
               ret = AnswerHead(call.arg) \o Numbers(locals.listed)
        /\ locals.selected = <<>> => ret = NoRelevantMessage

C11_Witness ==
    /\ AnswerCall
    /\ Asked(QuestionData)
    /\ lower(QuestionData) # QuestionData
    /\ Len(locals.selected) > 5
    /\ Len(locals.listed) = 5
    /\ \E i \in 1..Len(documents) : locals.scores[i] = 0
    /\ \E i, j \in 1..Len(locals.selected) :
           locals.selected[i][1] > locals.selected[j][1]
    /\ Occurs(AnswerPrefix \o QuestionData \o AnswerSuffix, ret)

\* C12: on a corpus and a question with a keyword, when no corpus sentence holds
\* a question keyword as a substring, ask_question returns exactly "No relevant
\* information found for your question."
C12_NoRelevantInformation ==
    (AnswerCall /\ ~SomeSentenceHas(question_keywords(call.arg))) =>
        ret = NoRelevantMessage

C12_Witness ==
    /\ Asked(QuestionCapital)
    /\ documents # <<>>
    /\ question_keywords(QuestionCapital)
           = << <<"c", "a", "p", "i", "t", "a", "l">>, <<"f", "r", "a", "n", "c", "e">> >>
    /\ ~SomeSentenceHas(question_keywords(QuestionCapital))
    /\ ret = NoRelevantMessage

\* the lower-cased tokens of a question that are alphabetic and no stop words
QualifyingTokens(question) ==
    {w \in Range(word_tokenize(lower(question))) : isalpha(w) /\ w \notin stop_words}

\* C13: the keywords of a question are all its lower-cased tokens that are
\* alphabetic and no stop words, whatever their length; when no token qualifies
\* and the corpus is not empty, ask_question returns "Please ask a more specific
\* question with keywords." and scores no sentence.
C13_QuestionKeywords ==
    (call.op = "ask_question" /\ documents # <<>>) =>
        IF QualifyingTokens(call.arg) # {}
        THEN /\ Range(locals.keywords) = QualifyingTokens(call.arg)
             /\ Len(locals.scores) = Len(documents)
             /\ ret # SpecificQuestionMessage
        ELSE /\ ret = SpecificQuestionMessage
             /\ locals.keywords = <<>>
             /\ locals.scores = <<>>
             /\ locals.selected = <<>>

C13_Witness ==
    /\ Asked(QuestionStopOnly)
    /\ documents # <<>>
    /\ word_tokenize(lower(QuestionStopOnly)) # <<>>
    /\ QualifyingTokens(QuestionStopOnly) = {}
    /\ SomeSentenceHas(<< <<"t", "h", "e">> >>)
    /\ locals.scores = <<>>
    /\ ret = SpecificQuestionMessage

\* the last call was process_documents
ProcessCall == call.op = "process_documents"

\* the texts a file adds to all_text: none when reading it raises, the pages of
\* a .pdf, the text of any other file
Texts(uploaded_file) ==
    IF ~uploaded_file.readable THEN <<>>
    ELSE IF EndsWith(uploaded_file.name, PdfSuffix) THEN uploaded_file.content
    ELSE <<uploaded_file.content>>

\* the texts of a batch, in upload order
BatchTexts(uploaded_files) ==
    flatten([i \in 1..Len(uploaded_files) |-> Texts(uploaded_files[i])])

\* C14, as stated: process_documents returns False exactly when the input list
\* is empty or every file raised while being read, and True otherwise; a file
\* that raises is skipped and the remaining files are processed.
C14_FalseOnlyWhenEveryFileRaised ==
    ProcessCall =>
        /\ ret = FALSE <=> \A i \in 1..Len(call.arg) : ~call.arg[i].readable
        /\ ret = TRUE => loaded = BatchTexts(call.arg)

\* C14, amended: process_documents returns False exactly when no text was
\* loaded: the input list is empty, or every file either raised while being
\* read or was a .pdf whose loader returned no page; it returns True otherwise.
\* A file that raises is skipped and the remaining files are processed.
C14_FalseWhenNoTextLoaded ==
    ProcessCall =>
        /\ ret \in BOOLEAN
        /\ ret = FALSE <=> BatchTexts(call.arg) = <<>>
        /\ ret = FALSE <=>
               \A i \in 1..Len(call.arg) :
                   \/ ~call.arg[i].readable
                   \/ EndsWith(call.arg[i].name, PdfSuffix) /\ call.arg[i].content = <<>>
        /\ ret = TRUE => loaded = BatchTexts(call.arg)

C14_Witness ==
    /\ ProcessCall
    /\ Len(call.arg) = 2
    /\ ~call.arg[1].readable
    /\ call.arg[2].readable
    /\ ret = TRUE
    /\ loaded = Texts(call.arg[2])
    /\ documents # <<>>

\* a sentence of the corpus is clean: not empty, no whitespace at either end,
\* no two whitespace characters in a row
Clean(sentence) ==
    /\ sentence # <<>>
    /\ sentence[1] \notin Whitespace
    /\ sentence[Len(sentence)] \notin Whitespace
    /\ \A i \in 1..(Len(sentence) - 1) :
           ~(sentence[i] \in Whitespace /\ sentence[i + 1] \in Whitespace)

\* the last character of a text that is no whitespace ends a sentence
Closed(text) ==
    \E i \in 1..Len(text) :
        /\ text[i] \in SentenceEnd
        /\ \A j \in (i + 1)..Len(text) : text[j] \in Whitespace

\* the sentences of one text taken alone
SentencesOf(text) == sent_tokenize(normalize(text))

\* the loaded texts that hold more than whitespace, in upload order
Written == SelectSeq(loaded, LAMBDA text : Range(text) \ Whitespace # {})

\* C15: every sentence of the corpus is a non-empty string without leading or
\* trailing whitespace and without a run of whitespace, and the sentences are in
\* document order: read one after the other they give the uploaded texts in
\* upload order, and the sentences of an earlier text come before those of a
\* later one.
C15_CorpusInvariant ==
    /\ \A i \in 1..Len(documents) : Clean(documents[i])
    /\ join(<<" ">>, documents) = normalize(join(<<" ">>, loaded))
    /\ (\A i \in 1..Len(Written) : Closed(Written[i])) =>
           documents = flatten([i \in 1..Len(Written) |-> SentencesOf(Written[i])])

C15_Witness ==
    /\ ProcessCall
    /\ ret = TRUE
    /\ Len(loaded) = 2
    /\ loaded[1] # loaded[2]
    /\ \E i \in 1..(Len(loaded[1]) - 1) :
           loaded[1][i] \in Whitespace /\ loaded[1][i + 1] \in Whitespace
    /\ Closed(loaded[1]) /\ Closed(loaded[2])
    /\ SentencesOf(loaded[1]) # <<>> /\ SentencesOf(loaded[2]) # <<>>
    /\ documents = SentencesOf(loaded[1]) \o SentencesOf(loaded[2])

\* the text process_documents makes of the texts of a batch, and its sentences
TextOf(uploaded_files) == normalize(join(<<NL, NL>>, BatchTexts(uploaded_files)))

\* C16: a process_documents call that returns True replaces the corpus and the
\* processed text by values made of the texts of that call only, so that no
\* sentence of an earlier corpus remains unless the new texts hold it too;
\* generate_summary and ask_question change neither.
C16_ReplacedWholesale ==
    /\ [](/\ (ProcessCall /\ ret = TRUE) =>
                /\ processed_text = TextOf(call.arg)
                /\ documents = sent_tokenize(processed_text)
           /\ \A i \in 1..Len(documents) : Occurs(documents[i], normalize(join(<<" ">>, loaded))))
    /\ [][call'.op \in {"generate_summary", "ask_question"} =>
              /\ documents' = documents
              /\ processed_text' = processed_text]_vars

C16_Witness ==
    /\ ProcessCall
    /\ ret = TRUE
    /\ replaced
    /\ documents # <<>>
    /\ documents = sent_tokenize(TextOf(call.arg))

\* the error description an operation returns for an exception it caught
ErrorDescription(message) ==
    IF call.op = "generate_summary" THEN ErrorSummaryPrefix \o message
    ELSE ErrorAnswerPrefix \o message

\* C17: no operation throws to its caller: an exception raised by tokenization,
\* sentence segmentation or scoring inside process_documents, generate_summary
\* or ask_question is caught by the operation, which returns a description of
\* the error instead.
C17_NeverThrows ==
    exception.message # <<>> =>
        /\ exception.caught
        /\ call.op \in {"generate_summary", "ask_question"} =>
               ret = ErrorDescription(exception.message)
        /\ call.op = "process_documents" => ret = FALSE

\* text and docs are the self.processed_text and the self.documents that one
\* process_documents call assigns (or the two empty values of __init__)
SamePair(text, docs) ==
    \/ text = <<>> /\ docs = <<>>
    \/ \E uploaded_files \in ThreadBatches :
           /\ processed[uploaded_files].result
           /\ processed[uploaded_files].processed_text = text
           /\ processed[uploaded_files].documents = docs

\* C18: however a process_documents call is interleaved with generate_summary
\* and ask_question calls on the same object, no such call reads a
\* processed_text assigned by one process_documents call together with
\* documents assigned by another.
C18_PairReplacedTogether ==
    (~reader.busy /\ reader.op = "generate_summary" /\ ReadsText(reader.arg)) =>
        SamePair(reader.text, reader.docs)

\* the position at which w is first encountered in the words
FirstAt(w, words) == CHOOSE i \in 1..Len(words) : words[i] = w /\ \A j \in 1..(i - 1) : words[j] # w

\* w goes before v in the frequency order: it occurs more often, or as often and
\* is encountered first
Before(w, v, words) ==
    \/ Occurrences(w, words) > Occurrences(v, words)
    \/ /\ Occurrences(w, words) = Occurrences(v, words)
       /\ FirstAt(w, words) < FirstAt(v, words)

\* C19: the keywords of key_points are the 10 candidates with the highest counts
\* in descending order of count, words of equal count in the order in which the
\* text first holds them; when several words tie at the cut-off the ones
\* encountered first are kept.
C19_FrequencyOrder ==
    KeyPointsCall =>
        \E words \in {Candidates} :
            /\ Len(locals.keywords) = Min(10, Cardinality(Range(words)))
            /\ Range(locals.keywords) \subseteq Range(words)
            /\ \A i, j \in 1..Len(locals.keywords) :
                   i < j => Before(locals.keywords[i], locals.keywords[j], words)
            /\ \A w \in Range(locals.keywords) :
                   \A v \in Range(words) \ Range(locals.keywords) : Before(w, v, words)

C19_Witness ==
    /\ KeyPointsCall
    /\ Len(locals.keywords) = 10
    /\ \E words \in {Candidates} :
           /\ Cardinality(Range(words)) > 10
           /\ Occurrences(locals.keywords[1], words) > Occurrences(locals.keywords[10], words)
           /\ \E v \in Range(words) \ Range(locals.keywords) :
                  /\ Occurrences(v, words) = Occurrences(locals.keywords[10], words)
                  /\ FirstAt(locals.keywords[10], words) < FirstAt(v, words)

\* the keywords added to the collection of a call: "data" and the words of a
\* question
AddedKeywords ==
    {method_keywords[9]} \cup Range(question_keywords(QuestionCatMatDog))

\* the keywords of the last call as its scoring loop compares them
Compared == lower_all(locals.keywords)

\* C20: for a fixed sentence, adding a keyword to the collection never lowers
\* the score and raises it by at most 1: by 1 when the lower-cased sentence
\* holds the keyword, by 0 when it does not.
C20_ScoreMonotonic ==
    ScoringCall =>
        \A i \in 1..Len(documents) :
            /\ locals.scores[i] = score(Compared, documents[i])
            /\ \A k \in AddedKeywords :
                   score(Append(Compared, k), documents[i])
                       = locals.scores[i] + (IF Occurs(k, lower(documents[i])) THEN 1 ELSE 0)

C20_Witness ==
    /\ ScoringCall
    /\ locals.keywords # <<>>
    /\ \E i \in 1..Len(documents) :
           /\ locals.scores[i] >= 1
           /\ \E k \in AddedKeywords \ Range(Compared) :
                  score(Append(Compared, k), documents[i]) = locals.scores[i] + 1
           /\ \E k \in AddedKeywords \ Range(Compared) :
                  score(Append(Compared, k), documents[i]) = locals.scores[i]
           /\ \E k \in AddedKeywords \cap Range(Compared) :
                  score(Append(Compared, k), documents[i]) = locals.scores[i] + 1

\* the texts the whitespace normalization is applied to: the loaded texts, their
\* combination, the processed text and the sentences of the corpus
Normalized ==
    Range(loaded) \cup {join(<<NL, NL>>, loaded), processed_text} \cup Range(documents)

\* C21: whitespace normalization is idempotent: applied twice to a text it gives
\* what it gives applied once; the normalization at output time leaves every
\* sentence of the corpus as it is, so a listed sentence is written verbatim.
C21_NormalizeIdempotent ==
    /\ \A text \in Normalized : normalize(normalize(text)) = normalize(text)
    /\ \A i \in 1..Len(documents) : normalize(strip(documents[i])) = documents[i]
    /\ KeyPointsCall =>
           \A i \in 1..Len(locals.listed) :
               Occurs(<<".", " ">> \o locals.listed[i] \o <<NL, NL>>, ret)

C21_Witness ==
    /\ KeyPointsCall
    /\ locals.listed # <<>>
    /\ \E k \in 1..Len(loaded) :
           /\ normalize(loaded[k]) # loaded[k]
           /\ \E i \in 1..(Len(loaded[k]) - 1) :
                  loaded[k][i] \in Whitespace /\ loaded[k][i + 1] \in Whitespace
           /\ \E i \in 1..Len(locals.listed) :
                  /\ ~Occurs(locals.listed[i], loaded[k])
                  /\ Occurs(locals.listed[i], normalize(loaded[k]))

\* the last call was op of the classes of src/core
Called(op) == call.op = op

\* the path ends with the extension, after a name of at least one character
HasExtension(file_path, extension) ==
    /\ Len(file_path) > Len(extension)
    /\ endswith(lower(file_path), extension)
    /\ file_path[Len(file_path) - Len(extension)] # "/"

\* the file exists, has an allowed extension in any letter case and is no
\* larger than the maximum
Acceptable(file_path) ==
    /\ file_path # None
    /\ \E file \in Disk :
           /\ file.path = file_path
           /\ file.st_size <= MAX_FILE_SIZE
    /\ \E extension \in {PdfSuffix, DocxSuffix, TxtSuffix, MdSuffix} :
           HasExtension(file_path, extension)

\* C22: validate_file returns True exactly when the file exists, its
\* lower-cased extension is .pdf, .docx, .txt or .md and its size is at most the
\* configured maximum; it returns False for a file that does not exist and for
\* an extension that is not allowed; it raises nothing.
C22_ValidateFile ==
    Called("validate_file") =>
        /\ exception = NoException
        /\ ret \in BOOLEAN
        /\ ret <=> Acceptable(call.arg)
        /\ call.arg = NonexistentPath => ret = FALSE
        /\ call.arg = XyzPath => ret = FALSE

C22_Witness ==
    /\ Called("validate_file")
    /\ ret = TRUE
    /\ call.arg = PaperPath
    /\ suffix(call.arg) \notin Range(ALLOWED_EXTENSIONS)
    /\ \E file \in Disk : file.path = ThesisPath /\ file.st_size = MAX_FILE_SIZE

\* the chunks carry their index in the list as chunk_id and the length of their
\* content as chunk_size
Numbered(chunks) ==
    \A i \in 1..Len(chunks) :
        /\ {"chunk_id", "chunk_size"} \subseteq DOMAIN chunks[i].metadata
        /\ chunks[i].metadata.chunk_id = i - 1
        /\ chunks[i].metadata.chunk_size = Len(chunks[i].page_content)

\* C23: every chunk process_documents returns has a chunk_id and a chunk_size in
\* its metadata: chunk_id is the index of the chunk in the returned list, from
\* 0, and chunk_size the length of the chunk's content; load_and_process gives
\* what load_document followed by process_documents gives, the exception of
\* load_document included.
C23_ChunkMetadata ==
    /\ (Called("process_documents") /\ exception = NoException) => Numbered(ret)
    /\ Called("load_and_process") =>
           LET docs == load_document(call.arg)
           IN  IF docs.raised
               THEN exception = [message |-> docs.error, caught |-> FALSE]
               ELSE /\ exception = NoException
                    /\ Numbered(ret)
                    /\ ret = document_processor_process_documents(docs.value).value

C23_Witness ==
    /\ Called("process_documents")
    /\ exception = NoException
    /\ Len(ret) = 3
    /\ {ret[i].metadata.chunk_id : i \in 1..3} = {0, 1, 2}
    /\ ret[2].metadata.source = ret[1].metadata.source
    /\ ret[3].metadata.source # ret[1].metadata.source
    /\ \E i \in 1..3 : ret[i].metadata.chunk_size < Len(call.arg[i].page_content)

\* C24: DocumentProcessor has an operation get_supported_formats, and what it
\* returns holds '.pdf', '.docx', '.txt' and '.md'.
C24_GetSupportedFormats ==
    Called("get_supported_formats") =>
        /\ exception = NoException
        /\ {PdfSuffix, DocxSuffix, TxtSuffix, MdSuffix} \subseteq Range(ret)

\* C25: in the session of main(), generate_summary and ask_question are called
\* only after a process_documents call of the session returned True; the flag
\* documents_processed is set by a call that returned True only, and once set
\* it stays set, so that after a later call that returned False the summary and
\* question controls are still there.
C25_ControlsAfterSuccess ==
    /\ [](/\ call.op \in {"generate_summary", "ask_question"} =>
                documents_processed /\ loaded # <<>>
          /\ documents_processed <=> loaded # <<>>
          /\ (ProcessCall /\ ret = FALSE /\ loaded # <<>>) => documents_processed)
    /\ [][/\ documents_processed => documents_processed'
          /\ (documents_processed' /\ ~documents_processed) =>
                (call'.op = "process_documents" /\ ret' = TRUE)]_vars

C25_Witness ==
    /\ ProcessCall
    /\ ret = FALSE
    /\ documents_processed
    /\ documents # <<>>
    /\ call.arg # <<>>

\* C26: a process_documents call that returns False leaves the corpus and the
\* processed text as they were, so that they are still those of the texts of
\* the last call that returned True.
C26_FailedCallChangesNothing ==
    /\ [][(call'.op = "process_documents" /\ ret' = FALSE) =>
              /\ documents' = documents
              /\ processed_text' = processed_text]_vars
    /\ []((ProcessCall /\ ret = FALSE) =>
              /\ processed_text = normalize(join(<<NL, NL>>, loaded))
              /\ documents = sent_tokenize(processed_text))

C26_Witness ==
    /\ ProcessCall
    /\ ret = FALSE
    /\ Len(call.arg) = 2
    /\ Len(documents) > 4
    /\ processed_text = normalize(join(<<NL, NL>>, loaded))

\* the last call was generate_summary on a corpus with a summary type that is
\* none of key_points, methodology and findings
OtherKindCall ==
    /\ documents # <<>>
    /\ call.op = "generate_summary"
    /\ call.arg \notin {"key_points", "methodology", "findings"}

\* C27: on a corpus, generate_summary with a summary type that is none of
\* key_points, methodology and findings, a string it does not know included,
\* returns what the comprehensive strategy returns: the comprehensive header,
\* the statistics, the overview and the key points.
C27_OtherKindIsComprehensive ==
    OtherKindCall =>
        /\ ret = _extract_comprehensive(documents, processed_text).result
        /\ SubSeq(ret, 1, Len(ComprehensiveHeader)) = ComprehensiveHeader
        /\ locals.listed = Overview

C27_Witness ==
    /\ OtherKindCall
    /\ call.arg \notin FourKinds
    /\ Len(locals.listed) = 3
    /\ ret = _extract_comprehensive(documents, processed_text).result

\* the line the overview writes for a sentence
OverviewLine(sentence) == <<BULLET, " ">> \o sentence \o <<NL, NL>>

\* C28: for a corpus of 3 or more sentences the overview of the comprehensive
\* summary holds the first two sentences, and the sentence before the last when
\* the corpus has more than 4 sentences: two items for 3 or 4 sentences, three
\* for more.  The last sentence is never one of them: when it occurs nowhere
\* else in the corpus, the overview has no line for it.
C28_OverviewOmitsLastSentence ==
    (ComprehensiveCall /\ Len(documents) >= 3) =>
        LET n == Len(documents)
        IN  /\ locals.listed
                   = <<documents[1], documents[2]>>
                     \o (IF n > 4 THEN <<documents[n - 1]>> ELSE <<>>)
            /\ n \in {3, 4} => Len(locals.listed) = 2
            /\ \A i \in 1..Len(locals.listed) : Occurs(OverviewLine(locals.listed[i]), ret)
            /\ (\A j \in 1..(n - 1) : documents[j] # documents[n]) =>
                   /\ documents[n] \notin Range(locals.listed)
                   /\ ~Occurs(OverviewLine(documents[n]), ret)

C28_Witness ==
    /\ ComprehensiveCall
    /\ Len(documents) \in {3, 4}
    /\ Len(locals.listed) = 2
    /\ documents[Len(documents)] \notin Range(locals.listed)
    /\ ~Occurs(OverviewLine(documents[Len(documents)]), ret)
    /\ Occurs(OverviewLine(documents[2]), ret)

\* C29: for a file validate_file accepts, process_document returns success =
\* True with chunks_created the number of chunks of the file, and after it the
\* vector store, the retriever and the QA chain are set, so that
\* generate_summary and ask_question no longer return the 'RAG system not
\* initialized' error; process_document raises nothing.
C29_ProcessDocumentInitializes ==
    /\ Called("process_document") =>
           /\ exception.caught
           /\ document_processor.validate_file[call.arg] =>
                  /\ ret.success
                  /\ ret.chunks_created
                         = Len(document_processor.load_and_process[call.arg].value)
                  /\ vector_store # None
                  /\ retriever # None
                  /\ qa_chain # None
    /\ (call.op \in {"generate_summary", "ask_question"} /\ qa_chain # None) =>
           ret.success

\* a store exists: the summarizer or its manager holds a vector store
Initialized == vector_store # None \/ vector_store_manager.vector_store # None

\* C30: clear_knowledge_base called when a store exists returns True and leaves
\* vector_store, retriever and qa_chain None and the collection deleted, so that
\* generate_summary and ask_question then return success = False with the 'RAG
\* system not initialized' error.
C30_ClearKnowledgeBase ==
    /\ [][(Initialized /\ call'.op = "clear_knowledge_base") =>
              /\ ret' = TRUE
              /\ vector_store' = None
              /\ retriever' = None
              /\ qa_chain' = None
              /\ vector_store_manager'.vector_store = None]_vars
    /\ []((call.op \in {"generate_summary", "ask_question"} /\ qa_chain = None) =>
              /\ ~ret.success
              /\ ret.error = NotInitializedMessage)

====
